---- MODULE Spec2Model ----
(***************************************************************************)
(* A model of datum-cloud/scorecard: the week calendar (getWeekStart,      *)
(* getLastCompletedWeekStart, getLastNWeeks, weekStartToEnd), the weekly   *)
(* table renderer (weeklyTable) and the reports built on them.             *)
(*                                                                         *)
(* A Go string is a sequence of one-character strings, so that formatting  *)
(* and parsing are computed and not assumed.  A time.Time is a record      *)
(* [sec, off]: the instant in seconds since 1970-01-01T00:00:00Z and the   *)
(* offset in seconds of the zone it is expressed in.                       *)
(***************************************************************************)
EXTENDS Integers, Sequences, FiniteSets, TLC

VARIABLES
    pc,         \* the operation that has acted ("idle" before any)
    clock,      \* the reading of time.Now() the operation took
    t,          \* argument of the first getWeekStart call
    key,        \* its result
    u,          \* argument of the second getWeekStart call
    ukey,       \* its result
    n,          \* argument of getLastNWeeks
    weeks,      \* result of getLastNWeeks
    lastStart,  \* result of getLastCompletedWeekStart
    table,      \* the weeklyTable: [labelColWidth, weekColWidth, weeks]
    out,        \* standard output: the calls that printed, in order, each
                \* [fn, label, arg, cur, line, total] with its arguments,
                \* the line it printed and the total it returned
    metrics,    \* runApplicantsByWeek: jobID -> [Department, Title, WeekCounts]
    napps,      \* the number of applications grouped so far
    curWeek,    \* currentWeek: the key getCurrentWeekStart returned to the report
    clockCur,   \* the reading of time.Now() getCurrentWeekStart took
    json,       \* the value marshalled to standard output by a --json report
    weekUsers,  \* runActiveUsers: week key -> set of usernames
    nevents,    \* the number of audit events looked at so far
    items,      \* the audit events of result.Items looked at so far
    queryWindow, \* the instants "now-30d" and "now" of the audit log query
    incidentCounts, \* runIncidents: counts, one weeklyIncidentCounts per week
    nissues,    \* the number of :incident/issue issues counted so far
    nreports,   \* the number of :incident/report issues counted so far
    since,      \* fetchIncidentIssues: the cutoff of each of the two calls
    counted,    \* the issues counted so far, per label: CreatedAt -> how many
    cursor,     \* fetchAllApplications: the cursor of the next request
    applications, \* fetchAllApplications: the results appended so far
    requests,   \* the bodies of the application.list requests sent, in order
    pages,      \* the responses to them, in order
    fetched     \* what fetchAllApplications returned: [applications, err]

calVars == <<clock, t, key, u, ukey, n, weeks, lastStart>>

tableVars == <<table, out>>

reportVars == <<curWeek, clockCur, json>>

fetchVars == <<cursor, applications, requests, pages, fetched>>

ashbyVars == <<metrics, napps, fetchVars>>

usersVars == <<weekUsers, nevents, items, queryWindow>>

incidentVars == <<incidentCounts, nissues, nreports, since, counted>>

vars == <<pc, calVars, tableVars, reportVars, ashbyVars, usersVars, incidentVars>>

-----------------------------------------------------------------------------
(* Bounds of the model *)

\* days of the first window of instants, counted from Monday 2024-02-26
MaxDay == 27
\* days of the second window, counted from Saturday 2024-12-28
MaxYearEndDay == 5
\* largest n passed to getLastNWeeks
MaxN == 5
\* largest number of week columns of a table rendered on its own
MaxTableWeeks == 3
\* largest number of applications fetched
MaxApps == 3
\* largest number of audit events returned by the query
MaxEvents == 3
\* largest number of issues fetched for one label
MaxIssues == 2

-----------------------------------------------------------------------------
(* Strings *)

Digits == <<"0", "1", "2", "3", "4", "5", "6", "7", "8", "9">>

DigitChar(d) == Digits[d + 1]

IsDigit(c) == \E d \in 0..9 : Digits[d + 1] = c

DigitVal(c) == CHOOSE d \in 0..9 : Digits[d + 1] = c

\* %02d and %04d, as time.Format writes the fields of "2006-01-02"
Pad2(x) == <<DigitChar((x \div 10) % 10), DigitChar(x % 10)>>

Pad4(x) == <<DigitChar((x \div 1000) % 10), DigitChar((x \div 100) % 10),
             DigitChar((x \div 10) % 10), DigitChar(x % 10)>>

\* the number a run of digits denotes, as time.Parse reads a field
RECURSIVE Atoi(_)
Atoi(s) ==
    IF s = <<>> THEN 0
    ELSE 10 * Atoi(SubSeq(s, 1, Len(s) - 1)) + DigitVal(s[Len(s)])

\* %d
RECURSIVE Itoa(_)
Itoa(x) ==
    IF x < 0 THEN <<"-">> \o Itoa(-x)
    ELSE IF x < 10 THEN <<DigitChar(x)>>
    ELSE Itoa(x \div 10) \o <<DigitChar(x % 10)>>

Spaces(k) == [i \in 1..k |-> " "]

\* %-*s: left-justified in a field of at least w characters
PadRight(w, str) == str \o Spaces(w - Len(str))

\* %*s and %*d: right-justified in a field of at least w characters
PadLeft(w, str) == Spaces(w - Len(str)) \o str

\* the characters of the labels in byte order, for the comparison of strings
\* by <
Alphabet ==
    <<" ", "-", ".", "/", "0", "1", "2", "3", "4", "5", "6", "7", "8", "9", ":", "A",
      "B", "C", "D", "E", "F", "G", "H", "I", "J", "K", "L", "M", "N", "O", "P", "Q",
      "R", "S", "T", "U", "V", "W", "X", "Y", "Z", "a", "b", "c", "d", "e", "f", "g",
      "h", "i", "j", "k", "l", "m", "n", "o", "p", "q", "r", "s", "t", "u", "v", "w",
      "x", "y", "z">>

Ord(c) == CHOOSE i \in 1..Len(Alphabet) : Alphabet[i] = c

\* a < b on Go strings: byte-wise lexicographic
RECURSIVE StrLess(_, _)
StrLess(a, b) ==
    IF b = <<>> THEN FALSE
    ELSE IF a = <<>> THEN TRUE
    ELSE IF Head(a) # Head(b) THEN Ord(Head(a)) < Ord(Head(b))
    ELSE StrLess(Tail(a), Tail(b))

\* strings.Repeat(c, k)
Repeat(c, k) == [i \in 1..k |-> c]

\* m[k] of a Go map[string]int: the zero value for an absent key
Lookup(m, k) == IF k \in DOMAIN m THEN m[k] ELSE 0

\* m[k] += d
MapAdd(m, k, d) ==
    IF k \in DOMAIN m THEN [m EXCEPT ![k] = @ + d]
    ELSE [x \in DOMAIN m \cup {k} |-> IF x = k THEN d ELSE m[x]]

-----------------------------------------------------------------------------
(* The Go time package, as far as the calendar uses it *)

SecPerDay == 24 * 60 * 60

IsLeap(y) == (y % 4 = 0) /\ ((y % 100 # 0) \/ (y % 400 = 0))

DaysInMonth(y, m) ==
    IF m = 2 THEN (IF IsLeap(y) THEN 29 ELSE 28)
    ELSE IF m \in {4, 6, 9, 11} THEN 30 ELSE 31

\* days from 1970-01-01 to January 1st of year y (y >= 1970)
DaysBeforeYear(y) ==
    LET p == y - 1
    IN  (365 * p + p \div 4 - p \div 100 + p \div 400)
        - (365 * 1969 + 1969 \div 4 - 1969 \div 100 + 1969 \div 400)

RECURSIVE DaysBeforeMonth(_, _)
DaysBeforeMonth(y, m) ==
    IF m = 1 THEN 0 ELSE DaysBeforeMonth(y, m - 1) + DaysInMonth(y, m - 1)

\* time.Date(y, m, d, ...): d may lie outside the month, Date normalises it
DaysFromCivil(y, m, d) == DaysBeforeYear(y) + DaysBeforeMonth(y, m) + (d - 1)

RECURSIVE YearOfDays(_, _)
YearOfDays(days, y) ==
    IF days < DaysBeforeYear(y) THEN YearOfDays(days, y - 1)
    ELSE IF days >= DaysBeforeYear(y + 1) THEN YearOfDays(days, y + 1)
    ELSE y

RECURSIVE MonthOfYday(_, _, _)
MonthOfYday(y, yday, m) ==
    IF yday < DaysBeforeMonth(y, m) + DaysInMonth(y, m) THEN m
    ELSE MonthOfYday(y, yday, m + 1)

\* t.Date() of the day number `days`: year, month, day of month
CivilFromDays(days) ==
    LET y    == YearOfDays(days, 1970 + days \div 365)
        yday == days - DaysBeforeYear(y)
        m    == MonthOfYday(y, yday, 1)
    IN  [year |-> y, month |-> m, day |-> yday - DaysBeforeMonth(y, m) + 1]

\* the day number and the second of the day of tm in its own zone
LocalDays(tm) == (tm.sec + tm.off) \div SecPerDay

LocalClock(tm) == (tm.sec + tm.off) % SecPerDay

\* t.UTC() taking the wall clock of t's zone for the UTC wall clock
UTC_WallClock(tm) == [sec |-> tm.sec + tm.off, off |-> 0]

\* t.UTC()
UTC(tm) == [sec |-> tm.sec, off |-> 0]

\* t.Weekday(): 0 = Sunday .. 6 = Saturday (1970-01-01 was a Thursday)
Weekday(tm) == (LocalDays(tm) + 4) % 7

\* t.AddDate(0, 0, days): the date fields plus days, renormalised by Date,
\* at the same wall clock in the same zone
AddDate(tm, days) ==
    LET c == CivilFromDays(LocalDays(tm))
    IN  [sec |-> DaysFromCivil(c.year, c.month, c.day + days) * SecPerDay
                 + LocalClock(tm) - tm.off,
         off |-> tm.off]

\* t.Format("2006-01-02")
FormatDate(tm) ==
    LET c == CivilFromDays(LocalDays(tm))
    IN  Pad4(c.year) \o <<"-">> \o Pad2(c.month) \o <<"-">> \o Pad2(c.day)

\* time.Parse("2006-01-02", s): midnight UTC of the date ("t, _ :=": the
\* zero result of a failed parse is not modelled, every key parsed here was
\* written by FormatDate)
ParseDate(s) ==
    [sec |-> DaysFromCivil(Atoi(SubSeq(s, 1, 4)), Atoi(SubSeq(s, 6, 7)),
                           Atoi(SubSeq(s, 9, 10))) * SecPerDay,
     off |-> 0]

-----------------------------------------------------------------------------
(* Week calendar *)

\* getWeekStart with Sunday left as weekday 0
getWeekStart_SundayZero(tm) ==
    LET tu      == UTC(tm)
        weekday == Weekday(tu)
        monday  == AddDate(tu, -(weekday - 1))
    IN  FormatDate(monday)

\* getWeekStart without the conversion to UTC
getWeekStart_Local(tm) ==
    LET wd      == Weekday(tm)
        weekday == IF wd = 0 THEN 7 ELSE wd
        monday  == AddDate(tm, -(weekday - 1))
    IN  FormatDate(monday)

getWeekStart(tm) ==
    LET tu      == UTC(tm)
        wd      == Weekday(tu)
        weekday == IF wd = 0 THEN 7 ELSE wd
        monday  == AddDate(tu, -(weekday - 1))
    IN  FormatDate(monday)

\* getLastCompletedWeekStart without the branch for a Sunday
getLastCompletedWeekStart_NoSunday(nw) ==
    LET now        == UTC(nw)
        weekday    == Weekday(now)
        lastSunday == AddDate(now, -weekday)
        monday     == AddDate(lastSunday, -6)
    IN  FormatDate(monday)

getLastCompletedWeekStart(nw) ==
    LET now        == UTC(nw)
        weekday    == Weekday(now)
        lastSunday == IF weekday = 0 THEN AddDate(now, -7)
                      ELSE AddDate(now, -weekday)
        monday     == AddDate(lastSunday, -6)
    IN  FormatDate(monday)

\* the loop writing weeks[i] instead of weeks[n-1-i]: newest first
RECURSIVE lastNWeeksFrom_NewestFirst(_, _)
lastNWeeksFrom_NewestFirst(tm, k) ==
    IF k <= 0 THEN <<>>
    ELSE <<FormatDate(tm)>>
         \o (CHOOSE rest \in {lastNWeeksFrom_NewestFirst(prev, k - 1) :
                                 prev \in {AddDate(tm, -7)}} : TRUE)

\* the loop of getLastNWeeks: weeks[n-1-i] is written at step i, so the
\* result read from index 1 is the value of step n-1 first (prev is t after
\* "t = t.AddDate(0, 0, -7)", computed before the next turn)
RECURSIVE lastNWeeksFrom(_, _)
lastNWeeksFrom(tm, k) ==
    IF k <= 0 THEN <<>>
    ELSE (CHOOSE rest \in {lastNWeeksFrom(prev, k - 1) : prev \in {AddDate(tm, -7)}} : TRUE)
         \o <<FormatDate(tm)>>

getLastNWeeks(k, nw) ==
    LET lastWeekStart == getLastCompletedWeekStart(nw)
    IN  lastNWeeksFrom(ParseDate(lastWeekStart), k)

getLast4Weeks(nw) == getLastNWeeks(4, nw)

weekStartToEnd(monday) == FormatDate(AddDate(ParseDate(monday), 6))

\* t.Format("Jan"): the abbreviated month name
MonthAbbrev ==
    <<<<"J", "a", "n">>,
      <<"F", "e", "b">>,
      <<"M", "a", "r">>,
      <<"A", "p", "r">>,
      <<"M", "a", "y">>,
      <<"J", "u", "n">>,
      <<"J", "u", "l">>,
      <<"A", "u", "g">>,
      <<"S", "e", "p">>,
      <<"O", "c", "t">>,
      <<"N", "o", "v">>,
      <<"D", "e", "c">>>>

\* formatWeekEnd: the Sunday of the week in "Jan 02" format
formatWeekEnd(monday) ==
    LET c == CivilFromDays(LocalDays(AddDate(ParseDate(monday), 6)))
    IN  MonthAbbrev[c.month] \o <<" ">> \o Pad2(c.day)

-----------------------------------------------------------------------------
(* Weekly table renderer (with the current-week column) *)

newWeeklyTable(labelColWidth, weekColWidth, wks) ==
    [labelColWidth |-> labelColWidth, weekColWidth |-> weekColWidth, weeks |-> wks]

\* a count printed with %*d whatever its value
formatCount_NoDash(w, count) == PadLeft(w, Itoa(count))

\* one value cell: "-" for a count of zero, the count otherwise
formatCount(w, count) ==
    IF count = 0 THEN PadLeft(w, <<"-">>) ELSE PadLeft(w, Itoa(count))

\* the loop over the week columns: prints a cell per count and adds it up
RECURSIVE weekColumns(_, _, _, _)
weekColumns(w, counts, i, acc) ==
    IF i > Len(counts) THEN acc
    ELSE weekColumns(w, counts, i + 1,
                     [line  |-> acc.line \o formatCount(w, counts[i]),
                      total |-> acc.total + counts[i]])

\* the counts of the configured weeks, in column order
weekCounts(tbl, weekValues) ==
    [i \in 1..Len(tbl.weeks) |-> Lookup(weekValues, tbl.weeks[i])]

RECURSIVE headerColumns(_, _)
headerColumns(tbl, i) ==
    IF i > Len(tbl.weeks) THEN <<>>
    ELSE PadLeft(tbl.weekColWidth, formatWeekEnd(tbl.weeks[i])) \o headerColumns(tbl, i + 1)

\* printHeader printing the Current column whatever currentWeek is
printHeader_AlwaysCurrent(tbl, labelTitle, currentWeek) ==
    PadRight(tbl.labelColWidth, labelTitle)
    \o headerColumns(tbl, 1)
    \o PadLeft(tbl.weekColWidth, <<"C", "u", "r", "r", "e", "n", "t">>)
    \o PadLeft(tbl.weekColWidth, <<"T", "o", "t", "a", "l">>)

printHeader(tbl, labelTitle, currentWeek) ==
    PadRight(tbl.labelColWidth, labelTitle)
    \o headerColumns(tbl, 1)
    \o (IF currentWeek # <<>> THEN PadLeft(tbl.weekColWidth, <<"C", "u", "r", "r", "e", "n", "t">>) ELSE <<>>)
    \o PadLeft(tbl.weekColWidth, <<"T", "o", "t", "a", "l">>)

\* printSeparator without "columns++" for the Current column
printSeparator_NoCurrentColumn(tbl, currentWeek) ==
    LET columns    == Len(tbl.weeks) + 1
        totalWidth == tbl.labelColWidth + tbl.weekColWidth * columns
    IN  Repeat("-", totalWidth)

printSeparator(tbl, currentWeek) ==
    LET columns    == Len(tbl.weeks) + 1 + (IF currentWeek # <<>> THEN 1 ELSE 0)
        totalWidth == tbl.labelColWidth + tbl.weekColWidth * columns
    IN  Repeat("-", totalWidth)

\* printRow adding the current week's count to the total
printRow_AddsCurrent(tbl, label, weekValues, currentWeek) ==
    LET w    == tbl.weekColWidth
        cols == weekColumns(w, weekCounts(tbl, weekValues), 1,
                            [line |-> PadRight(tbl.labelColWidth, label), total |-> 0])
        cur  == IF currentWeek # <<>>
                THEN formatCount(w, Lookup(weekValues, currentWeek)) ELSE <<>>
        sum  == cols.total + (IF currentWeek # <<>> THEN Lookup(weekValues, currentWeek) ELSE 0)
    IN  [line |-> cols.line \o cur \o PadLeft(w, Itoa(sum)), total |-> sum]

RECURSIVE sumOfMap(_, _)
sumOfMap(m, keys) ==
    IF keys = {} THEN 0
    ELSE LET k == CHOOSE x \in keys : TRUE IN m[k] + sumOfMap(m, keys \ {k})

\* printRow totalling every entry of the mapping, configured week or not
printRow_SumsAll(tbl, label, weekValues, currentWeek) ==
    LET w    == tbl.weekColWidth
        cols == weekColumns(w, weekCounts(tbl, weekValues), 1,
                            [line |-> PadRight(tbl.labelColWidth, label), total |-> 0])
        cur  == IF currentWeek # <<>>
                THEN formatCount(w, Lookup(weekValues, currentWeek)) ELSE <<>>
        sum  == sumOfMap(weekValues, DOMAIN weekValues)
    IN  [line |-> cols.line \o cur \o PadLeft(w, Itoa(sum)), total |-> sum]

printRow(tbl, label, weekValues, currentWeek) ==
    LET w    == tbl.weekColWidth
        cols == weekColumns(w, weekCounts(tbl, weekValues), 1,
                            [line |-> PadRight(tbl.labelColWidth, label), total |-> 0])
        cur  == IF currentWeek # <<>>
                THEN formatCount(w, Lookup(weekValues, currentWeek)) ELSE <<>>
    IN  [line |-> cols.line \o cur \o PadLeft(w, Itoa(cols.total)), total |-> cols.total]

printRowWithSlice(tbl, label, counts, currentCount) ==
    LET w    == tbl.weekColWidth
        cols == weekColumns(w, counts, 1,
                            [line |-> PadRight(tbl.labelColWidth, label), total |-> 0])
        cur  == IF currentCount >= 0 THEN formatCount(w, currentCount) ELSE <<>>
    IN  [line |-> cols.line \o cur \o PadLeft(w, Itoa(cols.total)), total |-> cols.total]

\* printTotalsRow adding the current week's total to the grand total
printTotalsRow_AddsCurrent(tbl, label, weekTotals, currentWeek) ==
    LET w    == tbl.weekColWidth
        cols == weekColumns(w, weekCounts(tbl, weekTotals), 1,
                            [line |-> PadRight(tbl.labelColWidth, label), total |-> 0])
        cur  == IF currentWeek # <<>>
                THEN formatCount(w, Lookup(weekTotals, currentWeek)) ELSE <<>>
        sum  == cols.total + (IF currentWeek # <<>> THEN Lookup(weekTotals, currentWeek) ELSE 0)
    IN  cols.line \o cur \o PadLeft(w, Itoa(sum))

\* printTotalsRow returns nothing: the grand total is only printed
printTotalsRow(tbl, label, weekTotals, currentWeek) ==
    LET w    == tbl.weekColWidth
        cols == weekColumns(w, weekCounts(tbl, weekTotals), 1,
                            [line |-> PadRight(tbl.labelColWidth, label), total |-> 0])
        cur  == IF currentWeek # <<>>
                THEN formatCount(w, Lookup(weekTotals, currentWeek)) ELSE <<>>
    IN  cols.line \o cur \o PadLeft(w, Itoa(cols.total))

\* one call that printed a line: its arguments, the line and the result
Printed(fn, label, arg, cur, line, total) ==
    [fn |-> fn, label |-> label, arg |-> arg, cur |-> cur, line |-> line, total |-> total]

-----------------------------------------------------------------------------
(* The applicants report: runApplicantsByWeek *)

\* the week key of the week containing now
getCurrentWeekStart(nw) == getWeekStart(nw)

NoDepartment == <<"N", "o", " ", "D", "e", "p", "a", "r", "t", "m", "e", "n", "t">>

\* http.StatusOK
StatusOK == 200

\* the body of an application.list request that never carries a cursor
requestBody_NoCursor(cur) == [limit |-> 100]

\* body := map[string]interface{}{"limit": 100}, with "cursor" when the
\* cursor is not empty
requestBody(cur) ==
    IF cur /= "" THEN [limit |-> 100, cursor |-> cur] ELSE [limit |-> 100]

\* ashbyRequest once the request is sent: [respBody, err] for the response
\* resp = [doErr, readErr, status, valid, Success, Results,
\* MoreDataAvailable, NextCursor]; doErr and readErr say that client.Do and
\* io.ReadAll failed, valid that the body unmarshals
ashbyRequest(resp) ==
    IF resp.doErr THEN [respBody |-> FALSE, err |-> "request failed"]
    ELSE IF resp.readErr THEN [respBody |-> FALSE, err |-> "failed to read response"]
    ELSE IF resp.status /= StatusOK THEN [respBody |-> FALSE, err |-> "API error"]
    ELSE [respBody |-> TRUE, err |-> ""]

\* one turn of the loop of fetchAllApplications on the response to the
\* request it sent: [cursor, applications, returned, result], returned TRUE
\* when the function returns result = [applications, err], err "" for nil
fetchTurn(cur, apps, resp) ==
    LET r == ashbyRequest(resp)
        failed(err) == [cursor |-> cur, applications |-> apps, returned |-> TRUE,
                        result |-> [applications |-> <<>>, err |-> err]]
    IN  IF r.err /= "" THEN failed(r.err)
        ELSE IF ~resp.valid THEN failed("failed to parse response")
        ELSE IF ~resp.Success THEN failed("API returned success=false")
        ELSE IF ~resp.MoreDataAvailable
             THEN [cursor |-> cur, applications |-> apps \o resp.Results, returned |-> TRUE,
                   result |-> [applications |-> apps \o resp.Results, err |-> ""]]
             ELSE [cursor |-> resp.NextCursor, applications |-> apps \o resp.Results,
                   returned |-> FALSE,
                   result |-> [applications |-> <<>>, err |-> ""]]

UnknownJob == <<"U", "n", "k", "n", "o", "w", "n", " ", "J", "o", "b">>

\* the loop body of runApplicantsByWeek: one application added to its job's
\* bucket; jobList is the result of fetchAllJobs
groupApplication(m, jobList, app) ==
    LET jobID     == app.jobID
        jobInfo   == IF jobID \in DOMAIN jobList THEN jobList[jobID]
                     ELSE [Title      |-> IF app.title = <<>> THEN UnknownJob ELSE app.title,
                           Department |-> NoDepartment]
        weekStart == getWeekStart(app.createdAt)
        m1        == IF jobID \in DOMAIN m THEN m
                     ELSE [x \in DOMAIN m \cup {jobID} |->
                              IF x = jobID
                              THEN [Department |-> jobInfo.Department,
                                    Title      |-> jobInfo.Title,
                                    WeekCounts |-> <<>>]
                              ELSE m[x]]
    IN  [m1 EXCEPT ![jobID].WeekCounts = MapAdd(@, weekStart, 1)]

\* "Update totals": one job's counts added to a map of totals, week by
\* week, then its current-week count
RECURSIVE addWeeks(_, _, _, _)
addWeeks(totals, wc, wks, i) ==
    IF i > Len(wks) THEN totals
    ELSE addWeeks(MapAdd(totals, wks[i], Lookup(wc, wks[i])), wc, wks, i + 1)

addJob(totals, wc, wks, currentWeek) ==
    MapAdd(addWeeks(totals, wc, wks, 1), currentWeek, Lookup(wc, currentWeek))

\* deptWeekTotals without the current week added
RECURSIVE deptWeekTotalsOf_NoCurrent(_, _, _, _)
deptWeekTotalsOf_NoCurrent(m, ids, wks, currentWeek) ==
    IF ids = <<>> THEN <<>>
    ELSE addWeeks(deptWeekTotalsOf_NoCurrent(m, SubSeq(ids, 1, Len(ids) - 1), wks, currentWeek),
                  m[ids[Len(ids)]].WeekCounts, wks, 1)

\* deptWeekTotals after the jobs ids of one department
RECURSIVE deptWeekTotalsOf(_, _, _, _)
deptWeekTotalsOf(m, ids, wks, currentWeek) ==
    IF ids = <<>> THEN <<>>
    ELSE addJob(deptWeekTotalsOf(m, SubSeq(ids, 1, Len(ids) - 1), wks, currentWeek),
                m[ids[Len(ids)]].WeekCounts, wks, currentWeek)

\* weekTotals after all the jobs ids
RECURSIVE weekTotalsOf(_, _, _, _)
weekTotalsOf(m, ids, wks, currentWeek) ==
    IF ids = <<>> THEN <<>>
    ELSE addJob(weekTotalsOf(m, SubSeq(ids, 1, Len(ids) - 1), wks, currentWeek),
                m[ids[Len(ids)]].WeekCounts, wks, currentWeek)

\* "Truncate job title if too long"
displayTitle(tbl, title) ==
    LET d == <<" ", " ">> \o title
    IN  IF Len(d) > tbl.labelColWidth - 2
        THEN SubSeq(d, 1, tbl.labelColWidth - 5) \o <<".", ".", ".">>
        ELSE d

\* the lines of the departments: for the job order[i] its department's
\* heading if it is the first of the department, its row, and the
\* department's subtotal if it is the last
RECURSIVE departmentLines(_, _, _, _, _)
departmentLines(m, tbl, currentWeek, order, i) ==
    IF i > Len(order) THEN <<>>
    ELSE
        LET job   == m[order[i]]
            dept  == job.Department
            first == i = 1 \/ m[order[i - 1]].Department # dept
            last  == i = Len(order) \/ m[order[i + 1]].Department # dept
            ids   == SelectSeq(order, LAMBDA x : m[x].Department = dept)
            title == displayTitle(tbl, job.Title)
            row   == printRow(tbl, title, job.WeekCounts, currentWeek)
            sums  == deptWeekTotalsOf(m, ids, tbl.weeks, currentWeek)
            sub   == printRow(tbl, <<" ", " ", "S", "u", "b", "t", "o", "t", "a", "l">>, sums, currentWeek)
        IN  (IF first THEN <<Printed("Printf", dept, <<>>, <<>>, <<"\n">> \o dept, 0)>>
             ELSE <<>>)
            \o <<Printed("printRow", title, job.WeekCounts, currentWeek, row.line, row.total)>>
            \o (IF last
                THEN <<Printed("printRow", <<" ", " ", "S", "u", "b", "t", "o", "t", "a", "l">>, sums, currentWeek, sub.line, sub.total)>>
                ELSE <<>>)
            \o departmentLines(m, tbl, currentWeek, order, i + 1)

\* printTableGrouped, given the weeks and the current week it read and the
\* jobs in the order its two sorts leave them: by department, then by title
printTableGrouped(m, wks, currentWeek, order) ==
    LET tbl        == newWeeklyTable(35, 10, wks)
        weekTotals == weekTotalsOf(m, order, wks, currentWeek)
    IN  <<Printed("printHeader", <<"J", "o", "b">>, <<>>, currentWeek,
                  printHeader(tbl, <<"J", "o", "b">>, currentWeek), 0),
          Printed("printSeparator", <<>>, <<>>, currentWeek,
                  printSeparator(tbl, currentWeek), 0)>>
        \o departmentLines(m, tbl, currentWeek, order, 1)
        \o <<Printed("printSeparator", <<>>, <<>>, currentWeek,
                     printSeparator(tbl, currentWeek), 0),
             Printed("printTotalsRow", <<"T", "o", "t", "a", "l">>, weekTotals, currentWeek,
                     printTotalsRow(tbl, <<"T", "o", "t", "a", "l">>, weekTotals, currentWeek), 0)>>

\* the loop over allWeeks of printJSONGrouped: the week entries and the total
RECURSIVE jsonWeeks(_, _, _, _)
jsonWeeks(wc, allWeeks, i, acc) ==
    IF i > Len(allWeeks) THEN acc
    ELSE LET count == Lookup(wc, allWeeks[i])
         IN  jsonWeeks(wc, allWeeks, i + 1,
                       [weeks |-> Append(acc.weeks,
                                         [WeekEnding |-> weekStartToEnd(allWeeks[i]),
                                          Count      |-> count]),
                        total |-> acc.total + count])

\* printJSONGrouped: the sorted output slice, given the order the sort leaves
printJSONGrouped(m, allWeeks, currentWeek, order) ==
    [i \in 1..Len(order) |->
        LET job == m[order[i]]
            w   == jsonWeeks(job.WeekCounts, allWeeks, 1, [weeks |-> <<>>, total |-> 0])
        IN  [Department  |-> job.Department,
             Job         |-> job.Title,
             Weeks       |-> w.weeks,
             CurrentWeek |-> [WeekEnding |-> weekStartToEnd(currentWeek),
                              Count      |-> Lookup(job.WeekCounts, currentWeek)],
             Total       |-> w.total]]

\* the less function of the sorts: department first, then title
jobLess(a, b) ==
    IF a.Department # b.Department THEN StrLess(a.Department, b.Department)
    ELSE StrLess(a.Title, b.Title)

\* the orders sort.Strings and sort.Slice can leave the jobs of m in: every
\* arrangement in which no job is less than one before it (sort.Slice is not
\* stable and the map is ranged over in any order)
sortedOrders(m) ==
    {o \in [1..Cardinality(DOMAIN m) -> DOMAIN m] :
        /\ \A i, j \in DOMAIN o : i # j => o[i] # o[j]
        /\ \A i, j \in DOMAIN o : i < j => ~jobLess(m[o[j]], m[o[i]])}

-----------------------------------------------------------------------------
(* The applicants histogram: printHistogram *)

getLast26Weeks(nw) == getLastNWeeks(26, nw)

barChar == "█"

breakdownChar == "▪"

maxBarHeight == 15

labelWidth == 12

\* "Aggregate counts per week across all jobs": the total of one week
RECURSIVE sumOverJobs(_, _, _)
sumOverJobs(m, ids, week) ==
    IF ids = {} THEN 0
    ELSE LET id == CHOOSE x \in ids : TRUE
         IN  Lookup(m[id].WeekCounts, week) + sumOverJobs(m, ids \ {id}, week)

histogramWeekTotals(m) ==
    [week \in UNION {DOMAIN m[id].WeekCounts : id \in DOMAIN m} |->
        sumOverJobs(m, DOMAIN m, week)]

\* "Get counts for last 26 weeks in order"
histogramCounts(totals, wks) == [i \in 1..Len(wks) |-> Lookup(totals, wks[i])]

\* the loop assigning every count to maxCount, not only a larger one
RECURSIVE maxCountOf_LastCount(_, _, _)
maxCountOf_LastCount(counts, i, maxCount) ==
    IF i > Len(counts) THEN maxCount
    ELSE maxCountOf_LastCount(counts, i + 1, counts[i])

RECURSIVE maxCountOf(_, _, _)
maxCountOf(counts, i, maxCount) ==
    IF i > Len(counts) THEN maxCount
    ELSE maxCountOf(counts, i + 1, IF counts[i] > maxCount THEN counts[i] ELSE maxCount)

\* the comparison with > in place of >=
reachesRow_Strict(count, row, maxCount) == count * maxBarHeight > row * maxCount

\* float64(count) >= float64(row) / float64(maxBarHeight) * float64(maxCount)
\* with the threshold taken as the exact quotient, which is what the float64
\* operations give for counts up to 200000
reachesRow(count, row, maxCount) == count * maxBarHeight >= row * maxCount

\* one row of bars
barRow(counts, row, maxCount) ==
    Spaces(labelWidth)
    \o [i \in 1..Len(counts) |-> IF reachesRow(counts[i], row, maxCount) THEN barChar ELSE " "]

\* "Print month labels": the first letter of a month where it begins
RECURSIVE monthLabels(_, _, _)
monthLabels(wks, i, lastMonth) ==
    IF i > Len(wks) THEN <<>>
    ELSE LET month == MonthAbbrev[CivilFromDays(LocalDays(ParseDate(wks[i]))).month]
         IN  IF month # lastMonth
             THEN <<month[1]>> \o monthLabels(wks, i + 1, month)
             ELSE <<" ">> \o monthLabels(wks, i + 1, lastMonth)

\* %.1f of num / den: the nearest tenth (no quotient printed lies half way)
formatTenths(num, den) ==
    LET tenths == (20 * num + den) \div (2 * den)
    IN  Itoa(tenths \div 10) \o <<".", DigitChar(tenths % 10)>>

\* int(float64(count) / float64(maxCount) * 30) + 1 without the + 1
barLength_NoPlusOne(count, maxCount) == (count * 30) \div maxCount

\* int(float64(count) / float64(maxCount) * 30) + 1, the quotient exact as
\* the float64 operations give it for counts up to 200000
barLength(count, maxCount) == (count * 30) \div maxCount + 1

\* one line of the weekly breakdown
breakdownLine(week, count, maxCount) ==
    <<" ", " ">> \o formatWeekEnd(week) \o <<" ", " ">> \o PadLeft(3, Itoa(count))
    \o (IF count > 0
        THEN <<" ">> \o [i \in 1..barLength(count, maxCount) |-> breakdownChar]
        ELSE <<>>)

\* "total += count" over the weeks
RECURSIVE totalOf(_, _, _)
totalOf(counts, i, total) ==
    IF i > Len(counts) THEN total ELSE totalOf(counts, i + 1, total + counts[i])

\* one line written to standard output by printHistogram: what it is, the
\* row or week it is about, the count it shows and the text
HistogramLine(kind, index, count, line) ==
    [fn |-> kind, label |-> <<>>, arg |-> index, cur |-> <<>>, line |-> line, total |-> count]

\* printHistogram, given the 26 weeks it read
printHistogram(m, wks) ==
    LET counts   == histogramCounts(histogramWeekTotals(m), wks)
        maxCount == maxCountOf(counts, 1, 0)
        total    == totalOf(counts, 1, 0)
    IN  IF maxCount = 0
        THEN <<HistogramLine("noData", 0, 0, <<"N", "o", " ", "a", "p", "p", "l", "i", "c", "a", "t", "i", "o", "n", "s", " ", "i", "n", " ", "t", "h", "e", " ", "l", "a", "s", "t", " ", "6", " ", "m", "o", "n", "t", "h", "s">>)>>
        ELSE <<HistogramLine("title", 0, 0, <<"A", "p", "p", "l", "i", "c", "a", "n", "t", "s", " ", "p", "e", "r", " ", "W", "e", "e", "k", " ", "(", "L", "a", "s", "t", " ", "6", " ", "M", "o", "n", "t", "h", "s", ")">>),
               HistogramLine("blank", 0, 0, <<>>)>>
             \o [k \in 1..maxBarHeight |->
                    HistogramLine("bar", maxBarHeight + 1 - k, maxCount,
                                  barRow(counts, maxBarHeight + 1 - k, maxCount))]
             \o <<HistogramLine("axis", 0, 0, Spaces(labelWidth) \o Repeat("-", 26)),
                  HistogramLine("months", 0, 0,
                                Spaces(labelWidth) \o monthLabels(wks, 1, <<>>)),
                  HistogramLine("blank", 0, 0, <<>>),
                  HistogramLine("scale", 0, maxCount,
                                <<"S", "c", "a", "l", "e", ":", " ", "E", "a", "c", "h", " ", "r", "o", "w", " ", "=", " ">> \o formatTenths(maxCount, maxBarHeight) \o <<" ", "a", "p", "p", "l", "i", "c", "a", "n", "t", "s">>),
                  HistogramLine("max", 0, maxCount,
                                <<"M", "a", "x", ":", " ">> \o Itoa(maxCount) \o <<" ", "a", "p", "p", "l", "i", "c", "a", "n", "t", "s", "/", "w", "e", "e", "k">>),
                  HistogramLine("blank", 0, 0, <<>>),
                  HistogramLine("heading", 0, 0, <<"W", "e", "e", "k", "l", "y", " ", "B", "r", "e", "a", "k", "d", "o", "w", "n", ":">>),
                  HistogramLine("blank", 0, 0, <<>>)>>
             \o [i \in 1..Len(wks) |->
                    HistogramLine("week", i, counts[i], breakdownLine(wks[i], counts[i], maxCount))]
             \o <<HistogramLine("blank", 0, 0, <<>>),
                  HistogramLine("total", 0, total,
                                <<" ", " ", "T", "o", "t", "a", "l", ":", " ">> \o Itoa(total) \o <<" ", "a", "p", "p", "l", "i", "c", "a", "n", "t", "s", " ", "o", "v", "e", "r", " ", "2", "6", " ", "w", "e", "e", "k", "s">>),
                  HistogramLine("average", 0, total,
                                <<" ", " ", "A", "v", "e", "r", "a", "g", "e", ":", " ">> \o formatTenths(total, 26) \o <<" ", "a", "p", "p", "l", "i", "c", "a", "n", "t", "s", "/", "w", "e", "e", "k">>)>>

-----------------------------------------------------------------------------
(* The active-users report: runActiveUsers *)

AllDigits(str) == \A i \in 1..Len(str) : IsDigit(str[i])

\* time.Parse(time.RFC3339, s) for timestamps without fractional seconds:
\* [ok, time], ok FALSE where Parse returns an error
parseRFC3339(str) ==
    LET field(a, b) == Atoi(SubSeq(str, a, b))
        shape ==
            /\ Len(str) \in {20, 25}
            /\ AllDigits(SubSeq(str, 1, 4)) /\ str[5] = "-"
            /\ AllDigits(SubSeq(str, 6, 7)) /\ str[8] = "-"
            /\ AllDigits(SubSeq(str, 9, 10)) /\ str[11] = "T"
            /\ AllDigits(SubSeq(str, 12, 13)) /\ str[14] = ":"
            /\ AllDigits(SubSeq(str, 15, 16)) /\ str[17] = ":"
            /\ AllDigits(SubSeq(str, 18, 19))
            /\ IF Len(str) = 20 THEN str[20] = "Z"
               ELSE /\ str[20] \in {"+", "-"}
                    /\ AllDigits(SubSeq(str, 21, 22)) /\ str[23] = ":"
                    /\ AllDigits(SubSeq(str, 24, 25))
        range ==
            /\ field(6, 7) \in 1..12
            /\ field(9, 10) \in 1..DaysInMonth(field(1, 4), field(6, 7))
            /\ field(12, 13) < 24 /\ field(15, 16) < 60 /\ field(18, 19) < 60
            /\ Len(str) = 25 => (field(21, 22) < 24 /\ field(24, 25) < 60)
        zone == IF Len(str) = 20 THEN 0
                ELSE (IF str[20] = "-" THEN -1 ELSE 1)
                     * (field(21, 22) * 3600 + field(24, 25) * 60)
    IN  IF shape /\ range
        THEN [ok   |-> TRUE,
              time |-> [sec |-> DaysFromCivil(field(1, 4), field(6, 7), field(9, 10)) * SecPerDay
                                + field(12, 13) * 3600 + field(15, 16) * 60
                                + field(18, 19) - zone,
                        off |-> zone]]
        ELSE [ok |-> FALSE, time |-> [sec |-> 0, off |-> 0]]

\* "--start-time", "now-30d", "--end-time", "now": the instants the audit
\* log is queried between, nw being the clock when the query runs
queryDays == 30

auditQueryWindow(nw) == [start |-> nw.sec - queryDays * SecPerDay, end |-> nw.sec]

\* whether the query returns an event: its timestamp lies in the window (an
\* event whose timestamp time.Parse rejects is not held back here)
returnedByQuery(event, window) ==
    LET parsed == parseRFC3339(event.timestamp)
    IN  parsed.ok => (window.start <= parsed.time.sec /\ parsed.time.sec <= window.end)

\* "Group users by week (including current week)": the empty sets
RECURSIVE emptyWeekUsers(_, _)
emptyWeekUsers(wks, i) ==
    IF i > Len(wks) THEN <<>>
    ELSE [x \in {wks[i]} \cup DOMAIN emptyWeekUsers(wks, i + 1) |-> {}]

newWeekUsers(wks, currentWeek) ==
    [x \in DOMAIN emptyWeekUsers(wks, 1) \cup {currentWeek} |-> {}]

\* countEvent keeping the events without a username
countEvent_KeepsEmptyUsername(wu, event) ==
    LET username == event.username
        parsed   == parseRFC3339(event.timestamp)
        weekStart == getWeekStart(parsed.time)
    IN  IF ~parsed.ok THEN wu
        ELSE IF weekStart \in DOMAIN wu
             THEN [wu EXCEPT ![weekStart] = @ \cup {username}]
             ELSE wu

\* the loop body over result.Items: one audit event
countEvent(wu, event) ==
    LET username == event.username
        parsed   == parseRFC3339(event.timestamp)
        weekStart == getWeekStart(parsed.time)
    IN  IF username = "" THEN wu
        ELSE IF ~parsed.ok THEN wu
        ELSE IF weekStart \in DOMAIN wu
             THEN [wu EXCEPT ![weekStart] = @ \cup {username}]
             ELSE wu

\* "Count unique users per week": weekCounts and allUsers
weekCountsOf(wu) == [week \in DOMAIN wu |-> Cardinality(wu[week])]

allUsersOf(wu) == UNION {wu[week] : week \in DOMAIN wu}

\* the value printed with --json
activeUsersJSON(wu, wks, currentWeek) ==
    LET weekCountsMap == weekCountsOf(wu)
    IN  [Weeks       |-> [i \in 1..Len(wks) |->
                             [WeekEnding  |-> weekStartToEnd(wks[i]),
                              ActiveUsers |-> Lookup(weekCountsMap, wks[i])]],
         CurrentWeek |-> [WeekEnding  |-> weekStartToEnd(currentWeek),
                          ActiveUsers |-> Lookup(weekCountsMap, currentWeek)],
         TotalUsers  |-> Cardinality(allUsersOf(wu))]

\* the table printed without --json
activeUsersTable(wu, wks, currentWeek) ==
    LET tbl           == newWeeklyTable(20, 10, wks)
        weekCountsMap == weekCountsOf(wu)
        row           == printRow(tbl, <<"A", "c", "t", "i", "v", "e", " ", "U", "s", "e", "r", "s">>, weekCountsMap, currentWeek)
        sep           == Printed("printSeparator", <<>>, <<>>, currentWeek,
                                 printSeparator(tbl, currentWeek), 0)
        users         == Cardinality(allUsersOf(wu))
    IN  <<Printed("printHeader", <<"M", "e", "t", "r", "i", "c">>, <<>>, currentWeek,
                  printHeader(tbl, <<"M", "e", "t", "r", "i", "c">>, currentWeek), 0),
          sep,
          Printed("printRow", <<"A", "c", "t", "i", "v", "e", " ", "U", "s", "e", "r", "s">>, weekCountsMap, currentWeek, row.line, row.total),
          sep,
          Printed("Printf", <<"T", "o", "t", "a", "l", " ", "U", "n", "i", "q", "u", "e", " ", "U", "s", "e", "r", "s">>, <<>>, <<>>,
                  <<"\n">> \o <<"T", "o", "t", "a", "l", " ", "U", "n", "i", "q", "u", "e", " ", "U", "s", "e", "r", "s">>
                  \o <<":", " ">> \o Itoa(users), users)>>

-----------------------------------------------------------------------------
(* Weekly table renderer without the current-week column, as the incidents
   report uses it *)

printHeaderNoCurrent(tbl, labelTitle) ==
    PadRight(tbl.labelColWidth, labelTitle)
    \o headerColumns(tbl, 1)
    \o PadLeft(tbl.weekColWidth, <<"T", "o", "t", "a", "l">>)

printSeparatorNoCurrent(tbl) ==
    LET totalWidth == tbl.labelColWidth + tbl.weekColWidth * (Len(tbl.weeks) + 1)
    IN  Repeat("-", totalWidth)

printRowNoCurrent(tbl, label, weekValues) ==
    LET w    == tbl.weekColWidth
        cols == weekColumns(w, weekCounts(tbl, weekValues), 1,
                            [line |-> PadRight(tbl.labelColWidth, label), total |-> 0])
    IN  [line |-> cols.line \o PadLeft(w, Itoa(cols.total)), total |-> cols.total]

\* printTotalsRow returns nothing: the grand total is only printed
printTotalsRowNoCurrent(tbl, label, weekTotals) ==
    LET w    == tbl.weekColWidth
        cols == weekColumns(w, weekCounts(tbl, weekTotals), 1,
                            [line |-> PadRight(tbl.labelColWidth, label), total |-> 0])
    IN  cols.line \o PadLeft(w, Itoa(cols.total))

printRowWithSliceNoCurrent(tbl, label, counts) ==
    LET w    == tbl.weekColWidth
        cols == weekColumns(w, counts, 1,
                            [line |-> PadRight(tbl.labelColWidth, label), total |-> 0])
    IN  [line |-> cols.line \o PadLeft(w, Itoa(cols.total)), total |-> cols.total]

-----------------------------------------------------------------------------
(* The incidents report: runIncidents *)

\* "Get issues from the last 4 weeks": time.Now().AddDate(0, 0, -28)
sinceDays == 28

sinceOf(nw) == AddDate(nw, -sinceDays)

\* whether the API returns an issue for the parameter since: the issue was
\* updated at or after that instant (one never touched was updated when it
\* was created)
returnedSince(issue, cutoff) == issue.updatedAt.sec >= cutoff.sec

\* counts := make([]weeklyIncidentCounts, len(weeks)), WeekStart filled in
newIncidentCounts(wks) ==
    [i \in 1..Len(wks) |-> [WeekStart |-> wks[i], IncidentIssues |-> 0, IncidentReports |-> 0]]

\* the index of the first week equal to weekStart, 0 if there is none
RECURSIVE firstWeekIndex(_, _, _)
firstWeekIndex(wks, weekStart, i) ==
    IF i > Len(wks) THEN 0
    ELSE IF weekStart = wks[i] THEN i
    ELSE firstWeekIndex(wks, weekStart, i + 1)

\* one more issue created at c among those counted
oneMore(f, c) ==
    [x \in DOMAIN f \cup {c} |->
        (IF x \in DOMAIN f THEN f[x] ELSE 0) + (IF x = c THEN 1 ELSE 0)]

\* countIncidentIssue counting an issue of no configured week in the oldest
countIncidentIssue_OldestWhenNone(cnts, wks, issue) ==
    LET i == firstWeekIndex(wks, getWeekStart(issue.createdAt), 1)
    IN  IF i = 0 THEN [cnts EXCEPT ![1].IncidentIssues = @ + 1]
        ELSE [cnts EXCEPT ![i].IncidentIssues = @ + 1]

\* the loop body over incidentIssues
countIncidentIssue(cnts, wks, issue) ==
    LET i == firstWeekIndex(wks, getWeekStart(issue.createdAt), 1)
    IN  IF i = 0 THEN cnts ELSE [cnts EXCEPT ![i].IncidentIssues = @ + 1]

\* the loop body over incidentReports
countIncidentReport(cnts, wks, issue) ==
    LET i == firstWeekIndex(wks, getWeekStart(issue.createdAt), 1)
    IN  IF i = 0 THEN cnts ELSE [cnts EXCEPT ![i].IncidentReports = @ + 1]

\* the table of runIncidents
incidentsTable(repo, cnts, wks) ==
    LET tbl           == newWeeklyTable(20, 10, wks)
        issuesCounts  == [i \in 1..Len(cnts) |-> cnts[i].IncidentIssues]
        reportsCounts == [i \in 1..Len(cnts) |-> cnts[i].IncidentReports]
        totalCounts   == [i \in 1..Len(cnts) |->
                             cnts[i].IncidentIssues + cnts[i].IncidentReports]
        sep           == Printed("printSeparator", <<>>, <<>>, <<>>,
                                 printSeparatorNoCurrent(tbl), 0)
        row(label, counts) ==
            LET r == printRowWithSliceNoCurrent(tbl, label, counts)
            IN  Printed("printRowWithSlice", label, counts, -1, r.line, r.total)
        title == <<"I", "n", "c", "i", "d", "e", "n", "t", " ", "C", "o", "u", "n", "t", "s", " ", "f", "o", "r", " ">> \o repo
                 \o <<" ", "(", "L", "a", "s", "t", " ", "4", " ", "W", "e", "e", "k", "s", ")">>
    IN  <<Printed("Printf", title, <<>>, <<>>, title \o <<"\n">>, 0),
          Printed("printHeader", <<"L", "a", "b", "e", "l">>, <<>>, <<>>, printHeaderNoCurrent(tbl, <<"L", "a", "b", "e", "l">>), 0),
          sep,
          row(<<":", "i", "n", "c", "i", "d", "e", "n", "t", "/", "i", "s", "s", "u", "e">>, issuesCounts),
          row(<<":", "i", "n", "c", "i", "d", "e", "n", "t", "/", "r", "e", "p", "o", "r", "t">>, reportsCounts),
          sep,
          row(<<"T", "o", "t", "a", "l">>, totalCounts)>>

\* the loop of printIncidentsJSON: the week entries and the totals per label
RECURSIVE incidentWeeks(_, _, _, _)
incidentWeeks(cnts, wks, i, acc) ==
    IF i > Len(wks) THEN acc
    ELSE incidentWeeks(cnts, wks, i + 1,
            [Weeks  |-> Append(acc.Weeks,
                               [WeekEnding     |-> weekStartToEnd(wks[i]),
                                IncidentIssue  |-> cnts[i].IncidentIssues,
                                IncidentReport |-> cnts[i].IncidentReports,
                                Total          |-> cnts[i].IncidentIssues
                                                   + cnts[i].IncidentReports]),
             Totals |-> [IncidentIssue  |-> acc.Totals.IncidentIssue + cnts[i].IncidentIssues,
                         IncidentReport |-> acc.Totals.IncidentReport + cnts[i].IncidentReports,
                         Total          |-> 0]])

printIncidentsJSON(repo, wks, cnts) ==
    LET o == incidentWeeks(cnts, wks, 1,
                           [Weeks  |-> <<>>,
                            Totals |-> [IncidentIssue |-> 0, IncidentReport |-> 0, Total |-> 0]])
    IN  [Repository |-> repo,
         Weeks      |-> o.Weeks,
         Totals     |-> [o.Totals EXCEPT
                            !.Total = o.Totals.IncidentIssue + o.Totals.IncidentReport]]

-----------------------------------------------------------------------------
(* Inputs *)

Clock(h, m, s) == h * 3600 + m * 60 + s

TimesOfDay == {Clock(0, 0, 0), Clock(12, 0, 0), Clock(23, 30, 0), Clock(23, 59, 59)}

\* zones an instant is expressed in: UTC, one hour east, one hour west
Offsets == {0, Clock(1, 0, 0), -Clock(1, 0, 0)}

DayNumbers ==
    {DaysFromCivil(2024, 2, 26) + i : i \in 0..MaxDay}
    \cup {DaysFromCivil(2024, 12, 28) + i : i \in 0..MaxYearEndDay}

Instants == {d * SecPerDay + s : d \in DayNumbers, s \in TimesOfDay}

Times == {[sec |-> i, off |-> o] : i \in Instants, o \in Offsets}

NoTime == [sec |-> 0, off |-> 0]

\* the clock of the examples: Wednesday 2024-03-20, 12:00:00 UTC
ExampleNow == [sec |-> DaysFromCivil(2024, 3, 20) * SecPerDay + Clock(12, 0, 0), off |-> 0]

\* the week keys a mapping may hold: the last 3 completed weeks of the
\* example clock and its current week (2024-02-26 .. 2024-03-18)
MapKeys == {getWeekStart(AddDate(ExampleNow, -7 * i)) : i \in 0..3}

\* counts of a mapping entry
CountValues == {0, 5, 12}

\* the mappings: every key absent or present with one of the counts
WeekValueMaps == UNION {[ks -> CountValues] : ks \in SUBSET MapKeys}

\* the tables of the reports: 35 or 20 columns of label, 10 per value
Tables ==
    {newWeeklyTable(lw, 10, getLastNWeeks(k, ExampleNow)) :
        lw \in {35, 20}, k \in 0..MaxTableWeeks}

CountSlices(k) == [1..k -> CountValues]

\* the tables a header is printed for: those of the reports and one whose
\* value columns are too narrow for "Current"
HeaderTables ==
    Tables \cup {newWeeklyTable(20, 6, getLastNWeeks(k, ExampleNow)) : k \in 0..MaxTableWeeks}

\* the titles of the label column: those of the reports and one wider than
\* either label column
HeaderTitles ==
    {<<"J", "o", "b">>, <<"M", "e", "t", "r", "i", "c">>, <<"L", "a", "b", "e", "l">>,
     <<"P", "r", "i", "n", "c", "i", "p", "a", "l", " ", "D", "i", "s", "t", "r", "i", "b", "u", "t", "e", "d", " ", "S", "y", "s", "t", "e", "m", "s", " ", "E", "n", "g", "i", "n", "e", "e", "r">>}

\* Sunday 2024-03-24, 23:59:59 UTC: one second before the week turns
SundayNight == [sec |-> DaysFromCivil(2024, 3, 24) * SecPerDay + Clock(23, 59, 59), off |-> 0]

\* the readings of time.Now() a report starts with
ReportNows == {ExampleNow, SundayNight}

\* Tuesday 2024-03-19, 08:00:00 UTC: 30 days earlier is the Sunday before
\* the oldest of the 4 weeks
TuesdayMorning == [sec |-> DaysFromCivil(2024, 3, 19) * SecPerDay + Clock(8, 0, 0), off |-> 0]

\* a later reading of the clock in the same run: the same second or the next
LaterReads(nw) == {nw, [sec |-> nw.sec + 1, off |-> nw.off]}

\* the result of fetchAllJobs: two jobs of one department
jobs ==
    [j \in {"j1", "j2"} |->
        IF j = "j1" THEN [Title |-> <<"S", "R", "E">>, Department |-> <<"E", "n", "g", "i", "n", "e", "e", "r", "i", "n", "g">>]
        ELSE [Title |-> <<"P", "r", "i", "n", "c", "i", "p", "a", "l", " ", "D", "i", "s", "t", "r", "i", "b", "u", "t", "e", "d", " ", "S", "y", "s", "t", "e", "m", "s", " ", "E", "n", "g", "i", "n", "e", "e", "r">>,
              Department |-> <<"E", "n", "g", "i", "n", "e", "e", "r", "i", "n", "g">>]]

\* createdAt of an application: before the 4 weeks, in the first of them, in
\* the last second of the last of them (expressed one hour east, where it is
\* Monday already), and in the first second of the week after
CreatedAts ==
    {[sec |-> DaysFromCivil(2024, 2, 12) * SecPerDay + Clock(12, 0, 0), off |-> 0],
     [sec |-> DaysFromCivil(2024, 2, 21) * SecPerDay + Clock(12, 0, 0), off |-> 0],
     [sec |-> DaysFromCivil(2024, 3, 17) * SecPerDay + Clock(23, 59, 59), off |-> Clock(1, 0, 0)],
     [sec |-> DaysFromCivil(2024, 3, 18) * SecPerDay, off |-> 0]}

\* the applications fetchAllApplications may return: of a listed job or of
\* one that fetchAllJobs did not list and that carries no title
Applications ==
    {[jobID |-> j, title |-> <<>>, createdAt |-> c] : j \in {"j1", "j2", "j9"}, c \in CreatedAts}

\* the most pages a run of fetchAllApplications is served before the server
\* ends the list or fails
MaxPages == 3

\* three applications the API lists
ListedApplication(j) ==
    [jobID |-> j, title |-> <<>>, createdAt |-> CHOOSE c \in CreatedAts : c.off /= 0]

\* the results of one page
PageResults ==
    {<<>>, <<ListedApplication("j1")>>, <<ListedApplication("j2"), ListedApplication("j9")>>}

\* nextCursor of a page; "" when the page carries none
Cursors == {"", "c1", "c2"}

NoPage ==
    [doErr |-> FALSE, readErr |-> FALSE, status |-> StatusOK, valid |-> FALSE,
     Success |-> FALSE, Results |-> <<>>, MoreDataAvailable |-> FALSE, NextCursor |-> ""]

\* the responses that fail the call: no connection, a body cut short, a
\* status other than 200, a body that is no JSON, success=false with results
FailingResponses ==
    {[NoPage EXCEPT !.doErr = TRUE],
     [NoPage EXCEPT !.readErr = TRUE],
     [NoPage EXCEPT !.status = 500],
     NoPage,
     [NoPage EXCEPT !.valid = TRUE, !.Results = <<ListedApplication("j1")>>,
                    !.MoreDataAvailable = TRUE, !.NextCursor = "c1"]}

\* the pages that end the list
LastPages ==
    {[NoPage EXCEPT !.valid = TRUE, !.Success = TRUE, !.Results = res] : res \in PageResults}

\* the pages that announce more data
MorePages ==
    {[NoPage EXCEPT !.valid = TRUE, !.Success = TRUE, !.Results = res,
                    !.MoreDataAvailable = TRUE, !.NextCursor = c] :
        res \in PageResults, c \in Cursors}

\* what the server may answer to the k-th request of a run
Responses(k) ==
    FailingResponses \cup LastPages \cup (IF k < MaxPages THEN MorePages ELSE {})

\* requestReceivedTimestamp of an audit event: before the 4 weeks, in the
\* first hours of the first of them, in the middle of the last of them, in
\* the last second of the last of them (written one hour east), in the
\* first second of the week after, and one that does not parse
EventTimestamps ==
    {<<"2", "0", "2", "4", "-", "0", "2", "-", "1", "8", "T", "2", "0", ":", "0", "0", ":", "0", "0", "Z">>,
     <<"2", "0", "2", "4", "-", "0", "2", "-", "1", "9", "T", "0", "6", ":", "0", "0", ":", "0", "0", "Z">>,
     <<"2", "0", "2", "4", "-", "0", "3", "-", "1", "3", "T", "0", "9", ":", "3", "0", ":", "0", "0", "Z">>,
     <<"2", "0", "2", "4", "-", "0", "3", "-", "1", "8", "T", "0", "0", ":", "5", "9", ":", "5", "9", "+", "0", "1", ":", "0", "0">>,
     <<"2", "0", "2", "4", "-", "0", "3", "-", "1", "8", "T", "0", "0", ":", "0", "0", ":", "0", "0", "Z">>,
     <<"2", "0", "2", "4", "-", "0", "3", "-", "2", "0", " ", "1", "2", ":", "0", "0", ":", "0", "0", "Z">>}

\* the audit events the query may return: of two users, and one that names
\* no user
AuditEvents ==
    {[username |-> who, timestamp |-> ts] : who \in {"alice", "bob"}, ts \in EventTimestamps}
    \cup {[username |-> "", timestamp |-> <<"2", "0", "2", "4", "-", "0", "3", "-", "1", "3", "T", "0", "9", ":", "3", "0", ":", "0", "0", "Z">>]}

\* args[0] of the incidents command
Repo == <<"d", "a", "t", "u", "m", "-", "c", "l", "o", "u", "d", "/", "i", "n", "f", "r", "a">>

\* the issues of the repository that carry the label: createdAt is decoded,
\* the time of the last update is known to the API only
Issues ==
    {[createdAt |-> c, updatedAt |-> up] :
        <<c, up>> \in {p \in CreatedAts \X CreatedAts : p[2].sec >= p[1].sec}}

RowLabel == <<" ", " ", "S", "u", "b", "t", "o", "t", "a", "l">>

TotalLabel == <<"T", "o", "t", "a", "l">>

-----------------------------------------------------------------------------
(* Calendar operations *)

InitCal ==
    /\ clock = NoTime
    /\ t = NoTime
    /\ key = <<>>
    /\ u = NoTime
    /\ ukey = <<>>
    /\ n = 0
    /\ weeks = <<>>
    /\ lastStart = <<>>

InitTable ==
    /\ table = newWeeklyTable(0, 0, <<>>)
    /\ out = <<>>

InitReport ==
    /\ curWeek = <<>>
    /\ clockCur = NoTime
    /\ json = <<>>

InitAshby ==
    /\ metrics = <<>>
    /\ napps = 0
    /\ cursor = ""
    /\ applications = <<>>
    /\ requests = <<>>
    /\ pages = <<>>
    /\ fetched = [applications |-> <<>>, err |-> ""]

InitUsers ==
    /\ weekUsers = <<>>
    /\ nevents = 0
    /\ items = {}
    /\ queryWindow = [start |-> 0, end |-> 0]

InitIncidents ==
    /\ incidentCounts = <<>>
    /\ nissues = 0
    /\ nreports = 0
    /\ since = [issue |-> NoTime, report |-> NoTime]
    /\ counted = [issue |-> <<>>, report |-> <<>>]

Init ==
    /\ pc = "idle"
    /\ InitCal
    /\ InitTable
    /\ InitReport
    /\ InitAshby
    /\ InitUsers
    /\ InitIncidents

CallGetWeekStart ==
    /\ pc = "idle"
    /\ \E tt \in Times :
        /\ t' = tt
        /\ key' = getWeekStart(tt)
    /\ pc' = "getWeekStart"
    /\ UNCHANGED <<clock, u, ukey, n, weeks, lastStart, tableVars, reportVars, ashbyVars,
                   usersVars, incidentVars>>

\* a second call, on another instant, after the first (both in UTC: the
\* pairs of instants are what matters here, the zones are the first call's)
CallGetWeekStartAgain ==
    /\ pc = "getWeekStart"
    /\ t.off = 0
    /\ \E uu \in Times :
        /\ uu.off = 0
        /\ u' = uu
        /\ ukey' = getWeekStart(uu)
    /\ pc' = "getWeekStart2"
    /\ UNCHANGED <<clock, t, key, n, weeks, lastStart, tableVars, reportVars, ashbyVars,
                   usersVars, incidentVars>>

\* a second call on the same instant expressed in another zone
CallGetWeekStartOtherZone ==
    /\ pc = "getWeekStart"
    /\ \E o \in Offsets \ {t.off} :
        /\ u' = [sec |-> t.sec, off |-> o]
        /\ ukey' = getWeekStart(u')
    /\ pc' = "getWeekStartZone"
    /\ UNCHANGED <<clock, t, key, n, weeks, lastStart, tableVars, reportVars, ashbyVars,
                   usersVars, incidentVars>>

CallGetLastNWeeks ==
    /\ pc = "idle"
    /\ \E nw \in Times, k \in 0..MaxN :
        /\ clock' = nw
        /\ n' = k
        /\ lastStart' = getLastCompletedWeekStart(nw)
        /\ weeks' = getLastNWeeks(k, nw)
    /\ pc' = "getLastNWeeks"
    /\ UNCHANGED <<t, key, u, ukey, tableVars, reportVars, ashbyVars,
                   usersVars, incidentVars>>

NextCal ==
    \/ CallGetWeekStart
    \/ CallGetWeekStartAgain
    \/ CallGetWeekStartOtherZone
    \/ CallGetLastNWeeks

SpecCal == Init /\ [][NextCal]_vars

-----------------------------------------------------------------------------
(* Renderer operations, each on a table of its own *)

CallPrintRow ==
    /\ pc = "idle"
    /\ \E tbl \in Tables, weekValues \in WeekValueMaps, currentWeek \in MapKeys \cup {<<>>} :
        LET r == printRow(tbl, RowLabel, weekValues, currentWeek)
        IN  /\ table' = tbl
            /\ out' = <<Printed("printRow", RowLabel, weekValues, currentWeek, r.line, r.total)>>
    /\ pc' = "printRow"
    /\ UNCHANGED <<calVars, reportVars, ashbyVars, usersVars, incidentVars>>

CallPrintRowWithSlice ==
    /\ pc = "idle"
    /\ \E tbl \in Tables, currentCount \in CountValues \cup {-1} :
        \E counts \in CountSlices(Len(tbl.weeks)) :
            LET r == printRowWithSlice(tbl, RowLabel, counts, currentCount)
            IN  /\ table' = tbl
                /\ out' = <<Printed("printRowWithSlice", RowLabel, counts, currentCount,
                                    r.line, r.total)>>
    /\ pc' = "printRowWithSlice"
    /\ UNCHANGED <<calVars, reportVars, ashbyVars, usersVars, incidentVars>>

CallPrintTotalsRow ==
    /\ pc = "idle"
    /\ \E tbl \in Tables, weekTotals \in WeekValueMaps, currentWeek \in MapKeys \cup {<<>>} :
        /\ table' = tbl
        /\ out' = <<Printed("printTotalsRow", TotalLabel, weekTotals, currentWeek,
                            printTotalsRow(tbl, TotalLabel, weekTotals, currentWeek), 0)>>
    /\ pc' = "printTotalsRow"
    /\ UNCHANGED <<calVars, reportVars, ashbyVars, usersVars, incidentVars>>

CallPrintHeader ==
    /\ pc = "idle"
    /\ \E tbl \in HeaderTables, labelTitle \in HeaderTitles, currentWeek \in MapKeys \cup {<<>>} :
        /\ table' = tbl
        /\ out' = <<Printed("printHeader", labelTitle, <<>>, currentWeek,
                            printHeader(tbl, labelTitle, currentWeek), 0)>>
    /\ pc' = "printHeader"
    /\ UNCHANGED <<calVars, reportVars, ashbyVars, usersVars, incidentVars>>

CallPrintSeparator ==
    /\ pc = "idle"
    /\ \E tbl \in HeaderTables, currentWeek \in MapKeys \cup {<<>>} :
        /\ table' = tbl
        /\ out' = <<Printed("printSeparator", <<>>, <<>>, currentWeek,
                            printSeparator(tbl, currentWeek), 0)>>
    /\ pc' = "printSeparator"
    /\ UNCHANGED <<calVars, reportVars, ashbyVars, usersVars, incidentVars>>

NextTable ==
    \/ CallPrintRow
    \/ CallPrintRowWithSlice
    \/ CallPrintTotalsRow
    \/ CallPrintHeader
    \/ CallPrintSeparator

SpecTable == Init /\ [][NextTable]_vars

-----------------------------------------------------------------------------
(* Week calendar: properties *)

\* the UTC day number of an instant, and the day number a key names
UTCDay(tm) == tm.sec \div SecPerDay

KeyDay(k) == ParseDate(k).sec \div SecPerDay

IsMondayKey(k) == (KeyDay(k) + 4) % 7 = 1

\* the index of the 7-day UTC interval [Monday 00:00:00, next Monday
\* 00:00:00) an instant lies in (1969-12-29 was a Monday)
WeekInterval(tm) == (tm.sec + 3 * SecPerDay) \div (7 * SecPerDay)

WeekStartBrackets(tm, k) ==
    /\ IsMondayKey(k)
    /\ KeyDay(k) <= UTCDay(tm)
    /\ UTCDay(tm) <= KeyDay(weekStartToEnd(k))
    /\ KeyDay(weekStartToEnd(k)) = KeyDay(k) + 6
    /\ (KeyDay(weekStartToEnd(k)) + 4) % 7 = 0

\* C1: for every timestamp t, getWeekStart(t) is a Monday and the UTC date of
\* t lies between getWeekStart(t) and weekStartToEnd(getWeekStart(t)), the
\* Sunday 6 days later, inclusive.
C1_WeekStartIsMondayAndBrackets ==
    /\ pc \in {"getWeekStart", "getWeekStart2"} => WeekStartBrackets(t, key)
    /\ pc = "getWeekStart2" => WeekStartBrackets(u, ukey)

\* a Sunday, one second before midnight UTC, expressed one hour east (where
\* it is already Monday), keyed to the Monday six days before
C1_Witness ==
    /\ pc = "getWeekStart"
    /\ t.off = Clock(1, 0, 0)
    /\ (UTCDay(t) + 4) % 7 = 0
    /\ t.sec % SecPerDay = Clock(23, 59, 59)
    /\ KeyDay(key) = UTCDay(t) - 6

\* C2: every instant u of the week [Monday 00:00:00 UTC, following Monday
\* 00:00:00 UTC) that getWeekStart(t) names gets the same key, and two
\* instants get the same key if and only if they lie in the same such
\* 7-day interval.
C2_WeekStartPartitions ==
    pc = "getWeekStart2" =>
        /\ (/\ KeyDay(key) * SecPerDay <= u.sec
            /\ u.sec < (KeyDay(key) + 7) * SecPerDay) => ukey = key
        /\ (ukey = key) <=> (WeekInterval(t) = WeekInterval(u))

\* t a Monday 00:00:00 UTC, u the last second of the Sunday after it
C2_Witness ==
    /\ pc = "getWeekStart2"
    /\ t.sec = KeyDay(key) * SecPerDay
    /\ u.sec = (KeyDay(key) + 7) * SecPerDay - 1
    /\ ukey = key

\* C3: for every clock reading and every n >= 0, getLastNWeeks(n) returns
\* exactly n keys, oldest first, each a Monday, each 7 days after the one
\* before, and the Sunday ending the last one has fully elapsed before now;
\* n = 0 gives the empty sequence.
C3_LastNWeeksShape ==
    pc = "getLastNWeeks" =>
        /\ Len(weeks) = n
        /\ \A i \in 1..Len(weeks) : IsMondayKey(weeks[i])
        /\ \A i \in 1..(Len(weeks) - 1) : KeyDay(weeks[i + 1]) = KeyDay(weeks[i]) + 7
        /\ n > 0 => (KeyDay(weekStartToEnd(weeks[n])) + 1) * SecPerDay <= clock.sec
        /\ n > 0 => KeyDay(weekStartToEnd(weeks[n])) < UTCDay(clock)
        /\ n = 0 => weeks = <<>>

\* three weeks asked for on a Monday at 00:00:00 UTC: the last week ended at
\* that very instant
C3_Witness ==
    /\ pc = "getLastNWeeks"
    /\ n = 3
    /\ Len(weeks) = 3
    /\ clock.sec = (KeyDay(weeks[3]) + 7) * SecPerDay
    /\ KeyDay(weeks[1]) + 14 = KeyDay(weeks[3])

\* C4: getLastCompletedWeekStart returns the Monday 13 days before now's UTC
\* date when now is a Sunday, and the Monday w+6 days before it when now is
\* weekday w (Monday = 1 .. Saturday = 6); now = Wednesday 2024-03-20 UTC
\* gives 2024-03-11 and the last 4 weeks 2024-02-19 .. 2024-03-11.
C4_LastCompletedWeekStart ==
    pc = "getLastNWeeks" =>
        LET w == (UTCDay(clock) + 4) % 7
        IN  /\ IsMondayKey(lastStart)
            /\ w = 0 => KeyDay(lastStart) = UTCDay(clock) - 13
            /\ w # 0 => KeyDay(lastStart) = UTCDay(clock) - (w + 6)
            /\ n > 0 => weeks[n] = lastStart
            /\ UTCDay(clock) = DaysFromCivil(2024, 3, 20) =>
                /\ w = 3
                /\ lastStart = <<"2", "0", "2", "4", "-", "0", "3", "-", "1", "1">>
                /\ n = 4 =>
                    weeks = << <<"2", "0", "2", "4", "-", "0", "2", "-", "1", "9">>,
                               <<"2", "0", "2", "4", "-", "0", "2", "-", "2", "6">>,
                               <<"2", "0", "2", "4", "-", "0", "3", "-", "0", "4">>,
                               <<"2", "0", "2", "4", "-", "0", "3", "-", "1", "1">> >>

\* the example: the last 4 weeks read on Wednesday 2024-03-20 at noon UTC
C4_Witness ==
    /\ pc = "getLastNWeeks"
    /\ clock = [sec |-> DaysFromCivil(2024, 3, 20) * SecPerDay + Clock(12, 0, 0), off |-> 0]
    /\ n = 4
    /\ weeks[1] = <<"2", "0", "2", "4", "-", "0", "2", "-", "1", "9">>
    /\ weeks[4] = <<"2", "0", "2", "4", "-", "0", "3", "-", "1", "1">>

-----------------------------------------------------------------------------
(* The applicants report *)

\* fetchAllApplications is called: var applications, var cursor
CallFetchAllApplications ==
    /\ pc = "idle"
    /\ cursor' = ""
    /\ applications' = <<>>
    /\ requests' = <<>>
    /\ pages' = <<>>
    /\ pc' = "fetching"
    /\ UNCHANGED <<fetched, metrics, napps, calVars, tableVars, reportVars, usersVars,
                   incidentVars>>

\* one turn of its loop: the request is sent, the response handled
FetchPage ==
    /\ pc = "fetching"
    /\ requests' = Append(requests, requestBody(cursor))
    /\ \E resp \in Responses(Len(requests) + 1) :
        LET turn == fetchTurn(cursor, applications, resp)
        IN  /\ pages' = Append(pages, resp)
            /\ cursor' = turn.cursor
            /\ applications' = turn.applications
            /\ IF turn.returned
               THEN fetched' = turn.result /\ pc' = "fetched"
               ELSE UNCHANGED <<fetched, pc>>
    /\ UNCHANGED <<metrics, napps, calVars, tableVars, reportVars, usersVars, incidentVars>>

NextFetch ==
    \/ CallFetchAllApplications
    \/ FetchPage

SpecFetch == Init /\ [][NextFetch]_vars

\* the loop goes on while it has not returned: a turn that can be taken is
\* taken
SpecFetchFair == SpecFetch /\ WF_vars(FetchPage)

\* fetchAllDepartments, fetchAllJobs and fetchAllApplications have returned
StartApplicants ==
    /\ pc = "idle"
    /\ pc' = "applications"
    /\ metrics' = <<>>
    /\ napps' = 0
    /\ UNCHANGED <<fetchVars, calVars, tableVars, reportVars, usersVars, incidentVars>>

\* one turn of the loop over the applications
GroupApplication ==
    /\ pc = "applications"
    /\ napps < MaxApps
    /\ \E app \in Applications :
        metrics' = groupApplication(metrics, jobs, app)
    /\ napps' = napps + 1
    /\ UNCHANGED <<pc, fetchVars, calVars, tableVars, reportVars, usersVars, incidentVars>>

\* the default output: getLast4Weeks and getCurrentWeekStart each read the
\* clock, then the table is printed
PrintTableGrouped ==
    /\ pc = "applications"
    /\ \E now1 \in ReportNows :
        \E now2 \in LaterReads(now1), order \in sortedOrders(metrics) :
            /\ clock' = now1
            /\ weeks' = getLast4Weeks(now1)
            /\ clockCur' = now2
            /\ curWeek' = getCurrentWeekStart(now2)
            /\ table' = newWeeklyTable(35, 10, weeks')
            /\ out' = printTableGrouped(metrics, weeks', curWeek', order)
    /\ pc' = "printTableGrouped"
    /\ UNCHANGED <<t, key, u, ukey, n, lastStart, json, ashbyVars, usersVars, incidentVars>>

\* --json
PrintJSONGrouped ==
    /\ pc = "applications"
    /\ \E now1 \in ReportNows :
        \E now2 \in LaterReads(now1), order \in sortedOrders(metrics) :
            /\ clock' = now1
            /\ weeks' = getLast4Weeks(now1)
            /\ clockCur' = now2
            /\ curWeek' = getCurrentWeekStart(now2)
            /\ json' = printJSONGrouped(metrics, weeks', curWeek', order)
    /\ pc' = "printJSONGrouped"
    /\ UNCHANGED <<t, key, u, ukey, n, lastStart, tableVars, ashbyVars, usersVars,
                   incidentVars>>

NextAshby ==
    \/ StartApplicants
    \/ GroupApplication
    \/ PrintTableGrouped
    \/ PrintJSONGrouped

SpecAshby == Init /\ [][NextAshby]_vars

\* --histo
PrintHistogram ==
    /\ pc = "applications"
    /\ \E now1 \in {ExampleNow} :
        /\ clock' = now1
        /\ weeks' = getLast26Weeks(now1)
        /\ out' = printHistogram(metrics, weeks')
    /\ pc' = "printHistogram"
    /\ UNCHANGED <<t, key, u, ukey, n, lastStart, table, reportVars, ashbyVars, usersVars,
                   incidentVars>>

\* the applicants report run with --histo
NextHisto ==
    \/ StartApplicants
    \/ GroupApplication
    \/ PrintHistogram

SpecHisto == Init /\ [][NextHisto]_vars

-----------------------------------------------------------------------------
(* The active-users report *)

\* the weeks and the current week are read, the audit log is queried
StartActiveUsers ==
    /\ pc = "idle"
    /\ \E now1 \in ReportNows \cup {TuesdayMorning} :
        \E now2 \in LaterReads(now1) :
            /\ clock' = now1
            /\ weeks' = getLast4Weeks(now1)
            /\ clockCur' = now2
            /\ curWeek' = getCurrentWeekStart(now2)
            /\ weekUsers' = newWeekUsers(weeks', curWeek')
            /\ \E now3 \in LaterReads(now2) : queryWindow' = auditQueryWindow(now3)
    /\ nevents' = 0
    /\ items' = {}
    /\ pc' = "events"
    /\ UNCHANGED <<t, key, u, ukey, n, lastStart, tableVars, json, ashbyVars, incidentVars>>

\* one turn of the loop over the audit events
CountEvent ==
    /\ pc = "events"
    /\ nevents < MaxEvents
    /\ \E event \in AuditEvents :
        /\ returnedByQuery(event, queryWindow)
        /\ weekUsers' = countEvent(weekUsers, event)
        /\ items' = items \cup {event}
    /\ nevents' = nevents + 1
    /\ UNCHANGED <<pc, queryWindow, calVars, tableVars, reportVars, ashbyVars, incidentVars>>

PrintActiveUsersJSON ==
    /\ pc = "events"
    /\ json' = activeUsersJSON(weekUsers, weeks, curWeek)
    /\ pc' = "activeUsersJSON"
    /\ UNCHANGED <<calVars, tableVars, curWeek, clockCur, ashbyVars, usersVars, incidentVars>>

PrintActiveUsersTable ==
    /\ pc = "events"
    /\ table' = newWeeklyTable(20, 10, weeks)
    /\ out' = activeUsersTable(weekUsers, weeks, curWeek)
    /\ pc' = "activeUsersTable"
    /\ UNCHANGED <<calVars, reportVars, ashbyVars, usersVars, incidentVars>>

NextUsers ==
    \/ StartActiveUsers
    \/ CountEvent
    \/ PrintActiveUsersJSON
    \/ PrintActiveUsersTable

SpecUsers == Init /\ [][NextUsers]_vars

-----------------------------------------------------------------------------
(* The incidents report *)

\* the weeks are read, both labels' issues are fetched
StartIncidents ==
    /\ pc = "idle"
    /\ \E now1 \in ReportNows :
        /\ clock' = now1
        /\ weeks' = getLast4Weeks(now1)
        /\ incidentCounts' = newIncidentCounts(weeks')
        /\ \E now2 \in LaterReads(now1) :
            \E now3 \in LaterReads(now2) :
                since' = [issue |-> sinceOf(now2), report |-> sinceOf(now3)]
    /\ nissues' = 0
    /\ nreports' = 0
    /\ counted' = [issue |-> <<>>, report |-> <<>>]
    /\ pc' = "incidentIssues"
    /\ UNCHANGED <<t, key, u, ukey, n, lastStart, tableVars, reportVars, ashbyVars, usersVars>>

\* one turn of the loop over incidentIssues
CountIncidentIssue ==
    /\ pc = "incidentIssues"
    /\ nissues < MaxIssues
    /\ \E issue \in Issues :
        /\ returnedSince(issue, since.issue)
        /\ incidentCounts' = countIncidentIssue(incidentCounts, weeks, issue)
        /\ counted' = [counted EXCEPT !.issue = oneMore(@, issue.createdAt)]
    /\ nissues' = nissues + 1
    /\ UNCHANGED <<pc, nreports, since, calVars, tableVars, reportVars, ashbyVars, usersVars>>

\* one turn of the loop over incidentReports, which follows the other loop
CountIncidentReport ==
    /\ pc \in {"incidentIssues", "incidentReports"}
    /\ nreports < MaxIssues
    /\ \E issue \in Issues :
        /\ returnedSince(issue, since.report)
        /\ incidentCounts' = countIncidentReport(incidentCounts, weeks, issue)
        /\ counted' = [counted EXCEPT !.report = oneMore(@, issue.createdAt)]
    /\ nreports' = nreports + 1
    /\ pc' = "incidentReports"
    /\ UNCHANGED <<nissues, since, calVars, tableVars, reportVars, ashbyVars, usersVars>>

PrintIncidentsJSON ==
    /\ pc \in {"incidentIssues", "incidentReports"}
    /\ json' = printIncidentsJSON(Repo, weeks, incidentCounts)
    /\ pc' = "incidentsJSON"
    /\ UNCHANGED <<calVars, tableVars, curWeek, clockCur, ashbyVars, usersVars, incidentVars>>

PrintIncidentsTable ==
    /\ pc \in {"incidentIssues", "incidentReports"}
    /\ table' = newWeeklyTable(20, 10, weeks)
    /\ out' = incidentsTable(Repo, incidentCounts, weeks)
    /\ pc' = "incidentsTable"
    /\ UNCHANGED <<calVars, reportVars, ashbyVars, usersVars, incidentVars>>

NextIncidents ==
    \/ StartIncidents
    \/ CountIncidentIssue
    \/ CountIncidentReport
    \/ PrintIncidentsJSON
    \/ PrintIncidentsTable

SpecIncidents == Init /\ [][NextIncidents]_vars

-----------------------------------------------------------------------------
(* Everything that renders rows: the renderer on its own and the reports *)

NextReports ==
    \/ NextTable
    \/ NextAshby
    \/ NextUsers
    \/ NextIncidents

SpecReports == Init /\ [][NextReports]_vars

-----------------------------------------------------------------------------
(* The two variants of the renderer on the same table and arguments: the
   variant without the Current column first, then the variant with it,
   called with the column disabled *)

BothPrintHeader ==
    /\ pc = "idle"
    /\ \E tbl \in HeaderTables, labelTitle \in HeaderTitles :
        /\ table' = tbl
        /\ out' = <<Printed("printHeader", labelTitle, <<>>, <<>>,
                            printHeaderNoCurrent(tbl, labelTitle), 0),
                    Printed("printHeader", labelTitle, <<>>, <<>>,
                            printHeader(tbl, labelTitle, <<>>), 0)>>
    /\ pc' = "bothVariants"
    /\ UNCHANGED <<calVars, reportVars, ashbyVars, usersVars, incidentVars>>

BothPrintSeparator ==
    /\ pc = "idle"
    /\ \E tbl \in HeaderTables :
        /\ table' = tbl
        /\ out' = <<Printed("printSeparator", <<>>, <<>>, <<>>, printSeparatorNoCurrent(tbl), 0),
                    Printed("printSeparator", <<>>, <<>>, <<>>, printSeparator(tbl, <<>>), 0)>>
    /\ pc' = "bothVariants"
    /\ UNCHANGED <<calVars, reportVars, ashbyVars, usersVars, incidentVars>>

BothPrintRow ==
    /\ pc = "idle"
    /\ \E tbl \in Tables, weekValues \in WeekValueMaps :
        LET r0 == printRowNoCurrent(tbl, RowLabel, weekValues)
            r1 == printRow(tbl, RowLabel, weekValues, <<>>)
        IN  /\ table' = tbl
            /\ out' = <<Printed("printRow", RowLabel, weekValues, <<>>, r0.line, r0.total),
                        Printed("printRow", RowLabel, weekValues, <<>>, r1.line, r1.total)>>
    /\ pc' = "bothVariants"
    /\ UNCHANGED <<calVars, reportVars, ashbyVars, usersVars, incidentVars>>

BothPrintRowWithSlice ==
    /\ pc = "idle"
    /\ \E tbl \in Tables :
        \E counts \in CountSlices(Len(tbl.weeks)) :
            LET r0 == printRowWithSliceNoCurrent(tbl, RowLabel, counts)
                r1 == printRowWithSlice(tbl, RowLabel, counts, -1)
            IN  /\ table' = tbl
                /\ out' = <<Printed("printRowWithSlice", RowLabel, counts, -1, r0.line, r0.total),
                            Printed("printRowWithSlice", RowLabel, counts, -1, r1.line, r1.total)>>
    /\ pc' = "bothVariants"
    /\ UNCHANGED <<calVars, reportVars, ashbyVars, usersVars, incidentVars>>

BothPrintTotalsRow ==
    /\ pc = "idle"
    /\ \E tbl \in Tables, weekTotals \in WeekValueMaps :
        /\ table' = tbl
        /\ out' = <<Printed("printTotalsRow", TotalLabel, weekTotals, <<>>,
                            printTotalsRowNoCurrent(tbl, TotalLabel, weekTotals), 0),
                    Printed("printTotalsRow", TotalLabel, weekTotals, <<>>,
                            printTotalsRow(tbl, TotalLabel, weekTotals, <<>>), 0)>>
    /\ pc' = "bothVariants"
    /\ UNCHANGED <<calVars, reportVars, ashbyVars, usersVars, incidentVars>>

NextVariants ==
    \/ BothPrintHeader
    \/ BothPrintSeparator
    \/ BothPrintRow
    \/ BothPrintRowWithSlice
    \/ BothPrintTotalsRow

SpecVariants == Init /\ [][NextVariants]_vars

-----------------------------------------------------------------------------
(* Weekly table renderer: properties *)

\* Reading a printed row back: the value columns are the last columns of the
\* line, each weekColWidth wide (a label may be wider than its column).
RECURSIVE TrimLeft(_)
TrimLeft(str) ==
    IF str # <<>> /\ Head(str) = " " THEN TrimLeft(Tail(str)) ELSE str

\* the text of the j-th of the nv value columns of a line
ColumnText(line, nv, w, j) ==
    TrimLeft(SubSeq(line, Len(line) - (nv - j + 1) * w + 1, Len(line) - (nv - j) * w))

IsNumber(str) == str # <<>> /\ \A i \in 1..Len(str) : IsDigit(str[i])

\* the count a cell shows: the placeholder stands for zero
ShownCount(str) == IF str = <<"-">> THEN 0 ELSE Atoi(str)

IsRow(e) == e.fn \in {"printRow", "printRowWithSlice", "printTotalsRow"}

\* whether the row has a Current column
HasCurrent(e) == IF e.fn = "printRowWithSlice" THEN e.cur >= 0 ELSE e.cur # <<>>

\* the number of value columns of a row: the weeks, Current if any, Total
ValueColumns(e) == Len(table.weeks) + (IF HasCurrent(e) THEN 1 ELSE 0) + 1

\* what the row's columns read: week i, the Current column, the Total column
ShownWeek(e, i) == ShownCount(ColumnText(e.line, ValueColumns(e), table.weekColWidth, i))

ShownCurrent(e) == ShownWeek(e, Len(table.weeks) + 1)

ShownTotal(e) == ShownWeek(e, ValueColumns(e))

RECURSIVE SumTo(_, _)
SumTo(f, k) == IF k <= 0 THEN 0 ELSE f[k] + SumTo(f, k - 1)

\* the sum of f[1] .. f[Len(f)]
SumSeq(f) == SumTo(f, Len(f))

Key_2024_03_04 == <<"2", "0", "2", "4", "-", "0", "3", "-", "0", "4">>

Key_2024_03_11 == <<"2", "0", "2", "4", "-", "0", "3", "-", "1", "1">>

\* C8: printRow's total is the sum over the configured week keys of the
\* mapping's count, an absent key counting 0; each week column shows that
\* week's count, so entries under other keys add nothing; the mapping
\* {2024-03-04: 5, 2024-03-11: 0} with weeks [2024-03-04, 2024-03-11] and no
\* current week prints 5, -, and total 5.
C8_TotalSumsConfiguredWeeks ==
    pc = "printRow" =>
        LET e == out[1] IN
        /\ e.total = SumSeq([i \in 1..Len(table.weeks) |-> Lookup(e.arg, table.weeks[i])])
        /\ ShownTotal(e) = e.total
        /\ \A i \in 1..Len(table.weeks) : ShownWeek(e, i) = Lookup(e.arg, table.weeks[i])
        /\ (/\ table.weeks = <<Key_2024_03_04, Key_2024_03_11>>
            /\ DOMAIN e.arg = {Key_2024_03_04, Key_2024_03_11}
            /\ e.arg[Key_2024_03_04] = 5
            /\ e.arg[Key_2024_03_11] = 0
            /\ e.cur = <<>>)
           => /\ ColumnText(e.line, 3, table.weekColWidth, 1) = <<"5">>
              /\ ColumnText(e.line, 3, table.weekColWidth, 2) = <<"-">>
              /\ ColumnText(e.line, 3, table.weekColWidth, 3) = <<"5">>
              /\ e.total = 5
              /\ Len(e.line) = table.labelColWidth + 3 * table.weekColWidth

\* the example of the claim
C8_Witness ==
    /\ pc = "printRow"
    /\ table.weeks = <<Key_2024_03_04, Key_2024_03_11>>
    /\ DOMAIN out[1].arg = {Key_2024_03_04, Key_2024_03_11}
    /\ out[1].arg[Key_2024_03_04] = 5
    /\ out[1].arg[Key_2024_03_11] = 0
    /\ out[1].cur = <<>>
    /\ out[1].total = 5

-----------------------------------------------------------------------------
(* The applicants report: properties *)

\* In the printed table a department is a heading (Printf), its job rows and
\* its Subtotal row: the last row before a line that is not a row.
IsSubtotalAt(s) ==
    /\ s < Len(out)
    /\ out[s].fn = "printRow"
    /\ out[s + 1].fn # "printRow"

IsJobRowAt(s) ==
    /\ s < Len(out)
    /\ out[s].fn = "printRow"
    /\ out[s + 1].fn = "printRow"

\* the heading of the department whose rows end at s
HeadingOf(s) ==
    CHOOSE h \in 1..s : out[h].fn = "Printf" /\ \A k \in (h + 1)..s : out[k].fn = "printRow"

\* the job rows of the department whose Subtotal row is at s
JobRowsOf(s) == [k \in 1..(s - HeadingOf(s) - 1) |-> out[HeadingOf(s) + k]]

\* all the job rows of the table, in order
AllJobRows ==
    LET idx == SelectSeq([i \in 1..Len(out) |-> i], IsJobRowAt)
    IN  [k \in 1..Len(idx) |-> out[idx[k]]]

\* C7: each department's Subtotal row is the elementwise sum of the
\* department's job rows: every week column, the Current column and the
\* Total column (and the returned total) are the sums of the job rows'.
C7_SubtotalIsSumOfJobRows ==
    pc = "printTableGrouped" =>
        \A s \in 1..Len(out) : IsSubtotalAt(s) =>
            LET rows == JobRowsOf(s) IN
            /\ Len(rows) =
                 Cardinality({id \in DOMAIN metrics :
                                 metrics[id].Department = out[HeadingOf(s)].label})
            /\ \A j \in 1..Len(table.weeks) :
                 ShownWeek(out[s], j) = SumSeq([k \in 1..Len(rows) |-> ShownWeek(rows[k], j)])
            /\ ShownCurrent(out[s]) = SumSeq([k \in 1..Len(rows) |-> ShownCurrent(rows[k])])
            /\ ShownTotal(out[s]) = SumSeq([k \in 1..Len(rows) |-> ShownTotal(rows[k])])
            /\ out[s].total = SumSeq([k \in 1..Len(rows) |-> rows[k].total])

\* a department of two jobs, each with an application in the current week,
\* one with an application in a completed week
C7_Witness ==
    /\ pc = "printTableGrouped"
    /\ \E s \in 1..Len(out) :
        /\ IsSubtotalAt(s)
        /\ Len(JobRowsOf(s)) = 2
        /\ ShownCurrent(JobRowsOf(s)[1]) = 1
        /\ ShownCurrent(JobRowsOf(s)[2]) = 1
        /\ ShownCurrent(out[s]) = 2
        /\ ShownTotal(out[s]) = 1

\* C9: in the final Total row each week column is the sum of that week over
\* all job rows (the Subtotal rows not counted again), the Current column is
\* the sum of the jobs' current-week counts, and the grand total is the sum
\* of the week columns only, the sum of the job rows' totals.
C9_TotalRowSumsJobRows ==
    pc = "printTableGrouped" =>
        LET e    == out[Len(out)]
            rows == AllJobRows
        IN  /\ e.fn = "printTotalsRow"
            /\ Len(rows) = Cardinality(DOMAIN metrics)
            /\ \A j \in 1..Len(table.weeks) :
                 ShownWeek(e, j) = SumSeq([k \in 1..Len(rows) |-> ShownWeek(rows[k], j)])
            /\ ShownCurrent(e) = SumSeq([k \in 1..Len(rows) |-> ShownCurrent(rows[k])])
            /\ ShownTotal(e) = SumSeq([j \in 1..Len(table.weeks) |-> ShownWeek(e, j)])
            /\ ShownTotal(e) = SumSeq([k \in 1..Len(rows) |-> rows[k].total])

\* two departments, an application in the current week and two in
\* completed weeks
C9_Witness ==
    /\ pc = "printTableGrouped"
    /\ Cardinality({s \in 1..Len(out) : IsSubtotalAt(s)}) = 2
    /\ ShownCurrent(out[Len(out)]) = 1
    /\ ShownTotal(out[Len(out)]) = 2
    /\ \E s \in 1..Len(out) : IsSubtotalAt(s) /\ ShownTotal(out[s]) = 1

-----------------------------------------------------------------------------
(* Rendering of counts: properties *)

\* the counts a row was given for its week columns and, if it has one, its
\* Current column, in column order
RowCounts(e) ==
    IF e.fn = "printRowWithSlice"
    THEN e.arg \o (IF e.cur >= 0 THEN <<e.cur>> ELSE <<>>)
    ELSE [i \in 1..Len(table.weeks) |-> Lookup(e.arg, table.weeks[i])]
         \o (IF e.cur # <<>> THEN <<Lookup(e.arg, e.cur)>> ELSE <<>>)

\* the text of the j-th count cell of a row
CellText(e, j) == ColumnText(e.line, Len(RowCounts(e)) + 1, table.weekColWidth, j)

\* a decimal numeral: digits, no leading zero
IsDecimal(str) == IsNumber(str) /\ Head(str) # "0"

\* the counts the aggregations of the reports hold
AggregatedCounts ==
    UNION {{metrics[id].WeekCounts[k] : k \in DOMAIN metrics[id].WeekCounts} :
              id \in DOMAIN metrics}
    \cup {Cardinality(weekUsers[k]) : k \in DOMAIN weekUsers}
    \cup {incidentCounts[i].IncidentIssues : i \in DOMAIN incidentCounts}
    \cup {incidentCounts[i].IncidentReports : i \in DOMAIN incidentCounts}
    \cup UNION {{RowCounts(out[i])[j] : j \in DOMAIN RowCounts(out[i])} \cup {out[i].total} :
                   i \in {x \in DOMAIN out : IsRow(out[x])}}

\* C6: in every rendered row a week or current-week cell whose count is zero
\* (an absent key included) reads "-", a cell whose count is not zero reads
\* the count in decimal, and no count the reports aggregate is negative.
C6_ZeroDashNonzeroDecimal ==
    /\ \A i \in DOMAIN out : IsRow(out[i]) =>
        \A j \in DOMAIN RowCounts(out[i]) :
            LET c    == RowCounts(out[i])[j]
                text == CellText(out[i], j)
            IN  IF c = 0 THEN text = <<"-">>
                ELSE IsDecimal(text) /\ Atoi(text) = c
    /\ \A c \in AggregatedCounts : c >= 0

\* the Total row of the applicants table with a week nobody applied in, a
\* week somebody did, and the Subtotal rows above it
C6_Witness ==
    /\ pc = "printTableGrouped"
    /\ LET e == out[Len(out)]
       IN  /\ e.fn = "printTotalsRow"
           /\ \E j, k \in DOMAIN RowCounts(e) :
                /\ RowCounts(e)[j] = 0 /\ CellText(e, j) = <<"-">>
                /\ RowCounts(e)[k] = 2 /\ CellText(e, k) = <<"2">>

-----------------------------------------------------------------------------
(* JSON output: properties *)

\* the users seen in one of the completed weeks
CompletedWeekUsers == UNION {weekUsers[weeks[i]] : i \in 1..Len(weeks)}

\* C10 as stated: in JSON output the current week's count is in no total:
\* each job's total is the sum of the counts of its 4 completed-week entries,
\* and total_unique_users does not count users seen only in the current week.
C10_JSONTotalsExcludeCurrentWeek ==
    /\ pc = "printJSONGrouped" =>
        \A i \in DOMAIN json :
            /\ Len(json[i].Weeks) = 4
            /\ json[i].Total = SumSeq([k \in 1..4 |-> json[i].Weeks[k].Count])
    /\ pc = "activeUsersJSON" =>
        json.TotalUsers = Cardinality(CompletedWeekUsers)

-----------------------------------------------------------------------------
(* The applicants histogram: properties *)

\* the applications counted in each of the 26 weeks, over all jobs
WeekTotals == [i \in 1..Len(weeks) |-> sumOverJobs(metrics, DOMAIN metrics, weeks[i])]

\* no job has an application in any of the 26 weeks
AllWeeksZero ==
    \A id \in DOMAIN metrics, i \in 1..Len(weeks) : Lookup(metrics[id].WeekCounts, weeks[i]) = 0

\* the largest of the totals
Largest(totals) == CHOOSE mx \in {totals[i] : i \in DOMAIN totals} : \A i \in DOMAIN totals : totals[i] <= mx

\* the lines of bars: the label margin and one cell per week
BarLines == {i \in DOMAIN out : out[i].fn = "bar"}

\* the filled cells: week i -> the rows in which its cell is filled
FilledRows ==
    [i \in 1..26 |->
        {row \in 1..15 : \E k \in BarLines :
            out[k].arg = row /\ out[k].line[labelWidth + i] = barChar}]

\* C11: when the largest weekly total over the 26 weeks is zero printHistogram
\* prints the "no data" message and nothing else; otherwise it prints exactly
\* 15 rows of bars (and no "no data" message).
C11_NoDataOrFifteenRows ==
    pc = "printHistogram" =>
        /\ Len(weeks) = 26
        /\ IF AllWeeksZero
           THEN /\ Len(out) = 1
                /\ out[1].line = <<"N", "o", " ", "a", "p", "p", "l", "i", "c", "a", "t", "i", "o", "n", "s", " ", "i", "n", " ", "t", "h", "e", " ", "l", "a", "s", "t", " ", "6", " ", "m", "o", "n", "t", "h", "s">>
           ELSE /\ Cardinality(BarLines) = 15
                /\ \A i \in BarLines : Len(out[i].line) = labelWidth + 26
                /\ \A i \in DOMAIN out : out[i].line # <<"N", "o", " ", "a", "p", "p", "l", "i", "c", "a", "t", "i", "o", "n", "s", " ", "i", "n", " ", "t", "h", "e", " ", "l", "a", "s", "t", " ", "6", " ", "m", "o", "n", "t", "h", "s">>
                /\ out[1].line = <<"A", "p", "p", "l", "i", "c", "a", "n", "t", "s", " ", "p", "e", "r", " ", "W", "e", "e", "k", " ", "(", "L", "a", "s", "t", " ", "6", " ", "M", "o", "n", "t", "h", "s", ")">>

\* three applications, all of the current week: none in the 26 weeks
C11_Witness ==
    /\ pc = "printHistogram"
    /\ napps = 3
    /\ AllWeeksZero
    /\ Len(out) = 1

\* C12: with a largest total above zero, the cell of a week in row 15 .. 1 is
\* filled iff count * 15 >= row * max: a bar is the rows 1 .. floor(15 *
\* count / max), all 15 for the largest count, none for count 0, and a
\* larger count never has the shorter bar.
C12_BarsFilledByThreshold ==
    (pc = "printHistogram" /\ ~AllWeeksZero) =>
        \A tot \in {WeekTotals}, filled \in {FilledRows} : \A mx \in {Largest(tot)} :
            /\ \A i \in 1..26, row \in 1..15 :
                 (row \in filled[i]) <=> (tot[i] * 15 >= row * mx)
            /\ \A i \in 1..26 :
                 /\ filled[i] = 1..((15 * tot[i]) \div mx)
                 /\ tot[i] = mx => Cardinality(filled[i]) = 15
                 /\ tot[i] = 0 => Cardinality(filled[i]) = 0
            /\ \A i, j \in 1..26 :
                 tot[i] <= tot[j] => Cardinality(filled[i]) <= Cardinality(filled[j])

\* a week of one application beside a week of two: bars of 7 and 15 rows
C12_Witness ==
    /\ pc = "printHistogram"
    /\ ~AllWeeksZero
    /\ \E tot \in {WeekTotals}, filled \in {FilledRows} :
           \E i, j \in 1..26 :
            /\ tot[i] = 1 /\ Cardinality(filled[i]) = 7
            /\ tot[j] = 2 /\ Cardinality(filled[j]) = 15
            /\ Largest(tot) = 2

\* the lines of the weekly breakdown, week by week
WeekLines ==
    [i \in 1..26 |-> out[CHOOSE k \in DOMAIN out : out[k].fn = "week" /\ out[k].arg = i].line]

\* the count a line shows ("  Jan 02  %3d") and the bar after it
ShownWeekCount(line) == Atoi(TrimLeft(SubSeq(line, 11, 13)))

SecondaryBar(line) == IF Len(line) <= 13 THEN <<>> ELSE SubSeq(line, 15, Len(line))

BreakdownShowsCounts(lines, totals) ==
    \A i \in 1..26 :
        /\ ShownWeekCount(lines[i]) = totals[i]
        /\ \A k \in DOMAIN SecondaryBar(lines[i]) : SecondaryBar(lines[i])[k] = breakdownChar

\* C13 as stated: the secondary bar of a week with a count above zero is
\* count / max * 30 characters long, truncated, and at least 1; the week of
\* the largest count has 30 characters, a week of count 0 has no bar.
C13_SecondaryBarThirty ==
    (pc = "printHistogram" /\ ~AllWeeksZero) =>
        \A tot \in {WeekTotals}, lines \in {WeekLines} : \A mx \in {Largest(tot)} :
            /\ BreakdownShowsCounts(lines, tot)
            /\ \A i \in 1..26 :
                 LET len == (tot[i] * 30) \div mx IN
                 /\ tot[i] > 0 => Len(SecondaryBar(lines[i])) = (IF len < 1 THEN 1 ELSE len)
                 /\ tot[i] = mx => Len(SecondaryBar(lines[i])) = 30
                 /\ tot[i] = 0 => SecondaryBar(lines[i]) = <<>>

\* C13 amended: the secondary bar of a week with a count above zero is one
\* character longer than count / max * 30 truncated: at least 1 character,
\* 31 for the week of the largest count; a week of count 0 has no bar.
C13_SecondaryBarPlusOne ==
    (pc = "printHistogram" /\ ~AllWeeksZero) =>
        \A tot \in {WeekTotals}, lines \in {WeekLines} : \A mx \in {Largest(tot)} :
            /\ BreakdownShowsCounts(lines, tot)
            /\ \A i \in 1..26 :
                 /\ tot[i] > 0 =>
                      /\ Len(SecondaryBar(lines[i])) = (tot[i] * 30) \div mx + 1
                      /\ Len(SecondaryBar(lines[i])) >= 1
                 /\ tot[i] = mx => Len(SecondaryBar(lines[i])) = 31
                 /\ tot[i] = 0 => SecondaryBar(lines[i]) = <<>>

\* a week of one application beside a week of two: bars of 16 and 31
C13_Witness ==
    /\ pc = "printHistogram"
    /\ ~AllWeeksZero
    /\ \E tot \in {WeekTotals}, lines \in {WeekLines} :
           /\ \E i, j \in 1..26 :
                /\ tot[i] = 1 /\ Len(SecondaryBar(lines[i])) = 16
                /\ tot[j] = 2 /\ Len(SecondaryBar(lines[j])) = 31
           /\ \E i \in 1..26 : tot[i] = 0 /\ Len(lines[i]) = 13

-----------------------------------------------------------------------------
(* Widths of the table's lines: properties *)

\* whether a printed line of the table has the Current column
WithCurrent(e) == IF e.fn = "printRowWithSlice" THEN e.cur >= 0 ELSE e.cur # <<>>

\* the sum of the widths of the columns a line of the table has
ColumnsWidth(e) ==
    table.labelColWidth
    + table.weekColWidth * (Len(table.weeks) + 1 + (IF WithCurrent(e) THEN 1 ELSE 0))

\* the number of characters a count is printed with, before padding
CountWidth(c) == IF c = 0 THEN 1 ELSE Len(Itoa(c))

\* whether the label and every cell of a header or row fit their columns
Fits(e) ==
    /\ Len(e.label) <= table.labelColWidth
    /\ IF e.fn = "printHeader"
       THEN /\ Len(table.weeks) > 0 => 6 <= table.weekColWidth
            /\ WithCurrent(e) => 7 <= table.weekColWidth
            /\ 5 <= table.weekColWidth
       ELSE /\ \A j \in DOMAIN RowCounts(e) : CountWidth(RowCounts(e)[j]) <= table.weekColWidth
            /\ Len(Itoa(ShownTotal(e))) <= table.weekColWidth

IsTableLine(e) == e.fn \in {"printHeader", "printSeparator"} \/ IsRow(e)

\* C14: the separator is as wide as the columns of the table together:
\* labelColWidth + weekColWidth * (weeks + 1 for Total + 1 for Current if
\* given); so are the header and every row given the same current week,
\* where label and cells fit their columns; and the separator without the
\* Current column is narrower by weekColWidth.
C14_SeparatorSpansColumns ==
    \A i \in DOMAIN out : IsTableLine(out[i]) =>
        LET e == out[i] IN
        /\ e.fn = "printSeparator" =>
             /\ Len(e.line) = ColumnsWidth(e)
             /\ \A k \in DOMAIN e.line : e.line[k] = "-"
             /\ WithCurrent(e) =>
                  Len(printSeparator(table, <<>>)) = Len(e.line) - table.weekColWidth
        /\ (e.fn # "printSeparator" /\ Fits(e)) =>
             /\ Len(e.line) = ColumnsWidth(e)
             /\ \A k \in DOMAIN out :
                  (out[k].fn = "printSeparator" /\ WithCurrent(out[k]) = WithCurrent(e))
                      => Len(out[k].line) = Len(e.line)

\* the applicants table: header, separators and rows with the Current
\* column, 35 + 10 * 6 characters each
C14_Witness ==
    /\ pc = "printTableGrouped"
    /\ Len(out) >= 6
    /\ out[1].fn = "printHeader" /\ Fits(out[1]) /\ Len(out[1].line) = 95
    /\ out[2].fn = "printSeparator" /\ Len(out[2].line) = 95
    /\ out[Len(out)].fn = "printTotalsRow" /\ Len(out[Len(out)].line) = 95

-----------------------------------------------------------------------------
(* The active-users report: properties *)

\* the active-users report has read its weeks and queried the audit log
UsersRunning == pc \in {"events", "activeUsersJSON", "activeUsersTable"}

\* C15: the 30 days of the audit log query cover the 4 completed weeks and
\* the week in progress: the Monday 00:00 UTC that starts the oldest of the 4
\* weeks is not earlier than the start of the queried range.
C15_QueryWindowCoversWeeks ==
    UsersRunning => ParseDate(weeks[1]).sec >= queryWindow.start

-----------------------------------------------------------------------------
(* Week keys and time zones: properties *)

\* the day number of the Monday of the UTC week an instant lies in
UTCMonday(tm) == UTCDay(tm) - ((UTCDay(tm) + 3) % 7)

\* C16: the week key of an instant does not depend on the zone the instant
\* is expressed in: with any UTC offset getWeekStart returns the same key,
\* the Monday of the UTC week the instant lies in.
C16_KeyIndependentOfZone ==
    pc = "getWeekStartZone" =>
        /\ u.sec = t.sec /\ u.off # t.off
        /\ ukey = key
        /\ KeyDay(key) = UTCMonday(t)
        /\ KeyDay(ukey) = UTCMonday(u)

\* Sunday 23:30 UTC, then the same instant one hour east, Monday 00:30
\* there: both in the week of the Monday six days before
C16_Witness ==
    /\ pc = "getWeekStartZone"
    /\ t.off = 0 /\ Weekday(t) = 0 /\ LocalClock(t) = Clock(23, 30, 0)
    /\ u.off = Clock(1, 0, 0) /\ Weekday(u) = 1 /\ LocalClock(u) = Clock(0, 30, 0)
    /\ ukey = key
    /\ KeyDay(ukey) = LocalDays(u) - 7

-----------------------------------------------------------------------------
(* The two variants of the renderer: properties *)

\* C17: with the Current column disabled (currentWeek "" or currentCount -1)
\* the renderer with current-week support prints, for every table and every
\* input, the line the renderer without it prints, and returns its total.
C17_DisabledCurrentEqualsPlain ==
    pc = "bothVariants" =>
        /\ Len(out) = 2
        /\ out[1].fn = out[2].fn
        /\ out[2].line = out[1].line
        /\ out[2].total = out[1].total

\* a row of three weeks, one of them without a count, total 17
C17_Witness ==
    /\ pc = "bothVariants"
    /\ out[2].fn = "printRow"
    /\ Len(table.weeks) = 3
    /\ out[2].total = 17
    /\ out[1].total = 17
    /\ \E j \in 1..3 : ColumnText(out[2].line, 4, table.weekColWidth, j) = <<"-">>
    /\ ColumnText(out[1].line, 4, table.weekColWidth, 4) = <<"1", "7">>

-----------------------------------------------------------------------------
(* The active-users report: counts *)

\* the events looked at that name a user, each with its parsed timestamp
ParsedItems ==
    {<<ev.username, parseRFC3339(ev.timestamp)>> : ev \in {e \in items : e.username /= ""}}

\* <<username, Monday of the UTC week of the event>> for those that parse
KeyedUsers ==
    {<<p[1], FormatDate([sec |-> UTCMonday(p[2].time) * SecPerDay, off |-> 0])>> :
        p \in {q \in ParsedItems : q[2].ok}}

\* the distinct usernames with an event in the week that starts on `week`
UsersOfWeek(keyed, week) == {p[1] : p \in {q \in keyed : q[2] = week}}

ShownWeeks == {weeks[i] : i \in 1..Len(weeks)} \cup {curWeek}

\* C18: the count of each of the 4 completed weeks and of the current week
\* is the number of distinct non-empty usernames with an event whose
\* timestamp parses and falls in that week; events outside these weeks count
\* nowhere, and no week's count exceeds the reported total of unique users.
C18_CountsAreDistinctUsersOfWeek ==
    UsersRunning =>
        \A keyed \in {KeyedUsers} :
            /\ DOMAIN weekUsers = ShownWeeks
            /\ \A week \in ShownWeeks : weekUsers[week] = UsersOfWeek(keyed, week)
            /\ pc = "activeUsersJSON" =>
                /\ \A i \in 1..Len(weeks) :
                    /\ json.Weeks[i].ActiveUsers = Cardinality(UsersOfWeek(keyed, weeks[i]))
                    /\ json.Weeks[i].ActiveUsers <= json.TotalUsers
                /\ json.CurrentWeek.ActiveUsers = Cardinality(UsersOfWeek(keyed, curWeek))
                /\ json.CurrentWeek.ActiveUsers <= json.TotalUsers
            /\ pc = "activeUsersTable" =>
                /\ \A week \in ShownWeeks :
                    /\ out[3].arg[week] = Cardinality(UsersOfWeek(keyed, week))
                    /\ out[3].arg[week] <= out[5].total
                /\ \A i \in 1..Len(weeks) :
                    ShownCount(ColumnText(out[3].line, Len(weeks) + 2, table.weekColWidth, i))
                        = Cardinality(UsersOfWeek(keyed, weeks[i]))
                /\ ShownCount(ColumnText(out[3].line, Len(weeks) + 2, table.weekColWidth,
                                         Len(weeks) + 1))
                        = Cardinality(UsersOfWeek(keyed, curWeek))

\* three events looked at: two of alice in one completed week, one without
\* username; the week counts 1, the total is 1
C18_Witness ==
    /\ pc = "activeUsersJSON"
    /\ nevents = 3
    /\ Cardinality(items) = 3
    /\ \E e1 \in items, e2 \in items, e3 \in items, i \in 1..4 :
        /\ e1 /= e2
        /\ e1.username = "alice" /\ e2.username = "alice"
        /\ parseRFC3339(e1.timestamp).ok /\ parseRFC3339(e2.timestamp).ok
        /\ getWeekStart(parseRFC3339(e1.timestamp).time) = weeks[i]
        /\ getWeekStart(parseRFC3339(e2.timestamp).time) = weeks[i]
        /\ e3.username = ""
        /\ parseRFC3339(e3.timestamp).ok
        /\ json.Weeks[i].ActiveUsers = 1
    /\ json.TotalUsers = 1

\* an event of bob in the 30 days and before the oldest week counts nowhere
C18_WitnessOutsideWeeks ==
    /\ pc = "activeUsersJSON"
    /\ \E ev \in items :
        /\ ev.username = "bob"
        /\ parseRFC3339(ev.timestamp).ok
        /\ parseRFC3339(ev.timestamp).time.sec < ParseDate(weeks[1]).sec
    /\ json.TotalUsers = 0

-----------------------------------------------------------------------------
(* The incidents report: the cutoff of the issues fetched *)

IncidentsRunning == pc \in {"incidentIssues", "incidentReports", "incidentsJSON", "incidentsTable"}

\* C19: the cutoff now - 28 days covers the 4 displayed weeks: the Monday
\* 00:00 UTC that starts the oldest of them is not earlier than the cutoff of
\* either call.
C19_SinceCoversWeeks ==
    IncidentsRunning =>
        /\ ParseDate(weeks[1]).sec >= since.issue.sec
        /\ ParseDate(weeks[1]).sec >= since.report.sec

-----------------------------------------------------------------------------
(* The current week and the completed weeks of one run *)

CurrentWeekRead == pc \in {"printTableGrouped", "printJSONGrouped"}

\* C20: in one run of the report the current week is exactly 7 days after
\* the newest of the completed weeks and is none of them, whenever the two
\* readings of the clock are taken.
C20_CurrentWeekFollowsNewestWeek ==
    CurrentWeekRead =>
        /\ ParseDate(curWeek).sec = ParseDate(weeks[Len(weeks)]).sec + 7 * SecPerDay
        /\ \A i \in 1..Len(weeks) : weeks[i] /= curWeek

-----------------------------------------------------------------------------
(* fetchAllApplications: properties *)

Fetching == pc \in {"fetching", "fetched"}

\* a response that is a page of the list
GoodPage(resp) ==
    /\ ~resp.doErr /\ ~resp.readErr /\ resp.status = 200
    /\ resp.valid /\ resp.Success

\* the results of the first k pages, in the order fetched
RECURSIVE ResultsUpTo(_)
ResultsUpTo(k) == IF k = 0 THEN <<>> ELSE ResultsUpTo(k - 1) \o pages[k].Results

\* the request that follows a page: it carries the page's nextCursor, and
\* none when the page has none
RequestAfter(resp) ==
    IF resp.NextCursor = "" THEN [limit |-> 100]
    ELSE [limit |-> 100, cursor |-> resp.NextCursor]

C21_Pages ==
    Fetching =>
        /\ Len(requests) = Len(pages)
        /\ Len(requests) > 0 => requests[1] = [limit |-> 100]
        /\ \A k \in 2..Len(requests) : requests[k] = RequestAfter(pages[k - 1])
        /\ \A k \in 1..(Len(pages) - 1) : GoodPage(pages[k]) /\ pages[k].MoreDataAvailable
        /\ pc = "fetching" =>
            /\ \A k \in 1..Len(pages) : GoodPage(pages[k]) /\ pages[k].MoreDataAvailable
            /\ applications = ResultsUpTo(Len(pages))
        /\ pc = "fetched" =>
            /\ Len(pages) > 0
            /\ IF GoodPage(pages[Len(pages)])
               THEN /\ ~pages[Len(pages)].MoreDataAvailable
                    /\ fetched.err = ""
                    /\ fetched.applications = ResultsUpTo(Len(pages))
               ELSE /\ fetched.err /= ""
                    /\ fetched.applications = <<>>

\* C21: the pages are requested one after another, each request after the
\* first with the cursor of the page before it; the first page without more
\* data ends the loop and the results of all pages are returned in order; a
\* failing page ends it with an error and no record; and the call returns
\* once the server ends the list or fails.
C21_SerialPagesAllOrNothing ==
    /\ []C21_Pages
    /\ (pc = "fetching") ~> (pc = "fetched")

\* three pages with cursors c1 and c2, the third one the last: 4 records
C21_Witness ==
    /\ pc = "fetched"
    /\ Len(pages) = 3
    /\ requests = <<[limit |-> 100], [limit |-> 100, cursor |-> "c1"],
                    [limit |-> 100, cursor |-> "c2"]>>
    /\ fetched.err = ""
    /\ Len(fetched.applications) = 4

\* a page fails after a page of results: an error and no record
C21_WitnessFailure ==
    /\ pc = "fetched"
    /\ Len(pages) = 2
    /\ Len(pages[1].Results) = 2
    /\ ~GoodPage(pages[2])
    /\ fetched.err /= ""
    /\ fetched.applications = <<>>

-----------------------------------------------------------------------------
(* The incidents report: counts *)

\* how many of the issues counted for a label were created in the UTC week
\* that starts on the Monday `week`
RECURSIVE SumOver(_, _)
SumOver(f, dom) ==
    IF dom = {} THEN 0
    ELSE LET x == CHOOSE y \in dom : TRUE IN f[x] + SumOver(f, dom \ {x})

CreatedIn(f, week) ==
    SumOver(f, {c \in DOMAIN f :
                   FormatDate([sec |-> UTCMonday(c) * SecPerDay, off |-> 0]) = week})

\* C22: each week's cell of a label's row counts the issues of that label
\* created in that week, so an issue adds one to exactly one cell when its
\* week is one of the 4 and to none otherwise; a row's total is at most the
\* number of issues of its label; and each cell of the Total row is the sum
\* of the two cells above it.
C22_OneCellPerIssue ==
    IncidentsRunning =>
        \A cnt \in {counted} :
            /\ SumOver(cnt.issue, DOMAIN cnt.issue) = nissues
            /\ SumOver(cnt.report, DOMAIN cnt.report) = nreports
            /\ \A i \in 1..Len(weeks) : \A j \in 1..Len(weeks) : i /= j => weeks[i] /= weeks[j]
            /\ \A i \in 1..Len(weeks) :
                /\ incidentCounts[i].IncidentIssues = CreatedIn(cnt.issue, weeks[i])
                /\ incidentCounts[i].IncidentReports = CreatedIn(cnt.report, weeks[i])
            /\ pc = "incidentsTable" =>
                /\ out[4].total <= nissues
                /\ out[5].total <= nreports
                /\ \A i \in 1..Len(weeks) :
                    /\ out[4].arg[i] = CreatedIn(cnt.issue, weeks[i])
                    /\ out[5].arg[i] = CreatedIn(cnt.report, weeks[i])
                    /\ out[7].arg[i] = out[4].arg[i] + out[5].arg[i]
                    /\ ShownCount(ColumnText(out[7].line, Len(weeks) + 1, table.weekColWidth, i))
                         = ShownCount(ColumnText(out[4].line, Len(weeks) + 1, table.weekColWidth, i))
                           + ShownCount(ColumnText(out[5].line, Len(weeks) + 1, table.weekColWidth, i))
            /\ pc = "incidentsJSON" =>
                /\ json.Totals.IncidentIssue <= nissues
                /\ json.Totals.IncidentReport <= nreports
                /\ \A i \in 1..Len(weeks) :
                    /\ json.Weeks[i].IncidentIssue = CreatedIn(cnt.issue, weeks[i])
                    /\ json.Weeks[i].IncidentReport = CreatedIn(cnt.report, weeks[i])
                    /\ json.Weeks[i].Total
                         = json.Weeks[i].IncidentIssue + json.Weeks[i].IncidentReport

\* two issues, one created in a displayed week and one in the current week,
\* and one report created in the same displayed week: the issue row totals 1
\* and the Total row shows 2 for that week
C22_Witness ==
    /\ pc = "incidentsTable"
    /\ nissues = 2
    /\ nreports = 1
    /\ out[4].total = 1
    /\ \E c \in DOMAIN counted.issue : getWeekStart(c) \notin {weeks[i] : i \in 1..Len(weeks)}
    /\ \E i \in 1..Len(weeks) :
        /\ out[4].arg[i] = 1
        /\ out[5].arg[i] = 1
        /\ ColumnText(out[7].line, Len(weeks) + 1, table.weekColWidth, i) = <<"2">>

====
